---- MODULE Spec2Model ----
(***************************************************************************)
(* Pulito: the path-safety validator, the trash subsystem and the cleanup  *)
(* command layer, modelled from src-tauri/src/commands/mod.rs,             *)
(* src-tauri/src/trash/mod.rs and src-tauri/src/startup/mod.rs.            *)
(*                                                                         *)
(* A string (a &str or String of the code) is a sequence of one-character  *)
(* strings, so that the substring and prefix tests of the validator are    *)
(* computed. A path (a Path or PathBuf) is the sequence of its component   *)
(* names below the root; a name is spelled out by the table N.             *)
(***************************************************************************)
EXTENDS Integers, Sequences, FiniteSets, TLC

(* ------------------------------------------------------------------ *)
(* Bounds of the model                                                 *)
(* ------------------------------------------------------------------ *)

\* longest traversal input, in fragments of TraversalFrags
MaxFrags == 3
\* symbolic links followed by one resolution before it gives up (ELOOP)
MaxLinkHops == 2
\* identifiers drawn in one run of the trash
MaxIds == 2
\* days the clock advances in one run
MaxNow == 1
\* calls in one run of the trash operations
MaxCalls == 3
\* cleanup and toggle commands in one run
MaxCmds == 1
\* the calls of the monitoring commands in a behaviour
MaxMonitorCalls == 5

(* ------------------------------------------------------------------ *)
(* Strings and paths                                                   *)
(* ------------------------------------------------------------------ *)

\* str::starts_with, str::contains
StartsWith(s, p) == Len(s) >= Len(p) /\ SubSeq(s, 1, Len(p)) = p
Contains(s, p) == \E i \in 1..(Len(s) - Len(p) + 1) : SubSeq(s, i, i + Len(p) - 1) = p

\* let x = e; F(x): F applied to the value of e
Let(e, F(_)) == F(e)

Front(s) == SubSeq(s, 1, Len(s) - 1)
Last(s) == s[Len(s)]
IsPrefixSeq(p, s) == Len(p) <= Len(s) /\ SubSeq(s, 1, Len(p)) = p

\* the file and directory names, spelled out
N ==
    [ bin |-> <<"b", "i", "n">>,
      boot |-> <<"b", "o", "o", "t">>,
      dev |-> <<"d", "e", "v">>,
      etc |-> <<"e", "t", "c">>,
      lib |-> <<"l", "i", "b">>,
      lib64 |-> <<"l", "i", "b", "6", "4">>,
      proc |-> <<"p", "r", "o", "c">>,
      run |-> <<"r", "u", "n">>,
      sbin |-> <<"s", "b", "i", "n">>,
      sys |-> <<"s", "y", "s">>,
      usr |-> <<"u", "s", "r">>,
      local |-> <<"l", "o", "c", "a", "l">>,
      var |-> <<"v", "a", "r">>,
      lock |-> <<"l", "o", "c", "k">>,
      spool |-> <<"s", "p", "o", "o", "l">>,
      root |-> <<"r", "o", "o", "t">>,
      home |-> <<"h", "o", "m", "e">>,
      passwd |-> <<"p", "a", "s", "s", "w", "d">>,
      shadow |-> <<"s", "h", "a", "d", "o", "w">>,
      sudoers |-> <<"s", "u", "d", "o", "e", "r", "s">>,
      opt |-> <<"o", "p", "t">>,
      apt |-> <<"a", "p", "t">>,
      cache |-> <<"c", "a", "c", "h", "e">>,
      tmp |-> <<"t", "m", "p">>,
      log |-> <<"l", "o", "g">>,
      share |-> <<"s", "h", "a", "r", "e">>,
      srv |-> <<"s", "r", "v">>,
      trash |-> <<"t", "r", "a", "s", "h">>,
      etcetera |-> <<"e", "t", "c", "e", "t", "e", "r", "a">>,
      tmpfoo |-> <<"t", "m", "p", "f", "o", "o">>,
      u |-> <<"u">>,
      u2 |-> <<"u", "2">>,
      a |-> <<"a">>,
      b |-> <<"b">>,
      d |-> <<"d">>,
      f |-> <<"f">>,
      ro |-> <<"r", "o">>,
      oth |-> <<"o", "t", "h">>,
      lnk |-> <<"l", "n", "k">>,
      tl |-> <<"t", "l">>,
      dl |-> <<"d", "l">>,
      bad |-> <<"b", "a", "d">>,
      gone |-> <<"g", "o", "n", "e">>,
      nope |-> <<"n", "o", "p", "e">>,
      app |-> <<"a", "p", "p">>,
      x |-> <<"x">>,
      ls |-> <<"l", "s">>,
      data |-> <<"d", "a", "t", "a">>,
      doc |-> <<"d", "o", "c">>,
      pip |-> <<"p", "i", "p">>,
      mozilla |-> <<"m", "o", "z", "i", "l", "l", "a">>,
      logs |-> <<"l", "o", "g", "s">>,
      misc |-> <<"m", "i", "s", "c">>,
      i1 |-> <<"i", "1">>,
      i2 |-> <<"i", "2">>,
      i3 |-> <<"i", "3">>,
      i4 |-> <<"i", "4">>,
      i5 |-> <<"i", "5">>,
      i6 |-> <<"i", "6">>,
      i7 |-> <<"i", "7">>,
      i8 |-> <<"i", "8">>,
      i9 |-> <<"i", "9">>,
      systemd |-> <<"s", "y", "s", "t", "e", "m", "d">>,
      user |-> <<"u", "s", "e", "r">>,
      svcservice |-> <<"s", "v", "c", ".", "s", "e", "r", "v", "i", "c", "e">>,
      lnkdesktop |-> <<"l", "n", "k", ".", "d", "e", "s", "k", "t", "o", "p">>,
      xpip |-> <<"x", ".", "p", "i", "p">>,
      metadata |-> <<"m", "e", "t", "a", "d", "a", "t", "a", ".", "j", "s", "o", "n">>,
      dotdot |-> <<".", ".">>,
      dotlocal |-> <<".", "l", "o", "c", "a", "l">>,
      dotcache |-> <<".", "c", "a", "c", "h", "e">>,
      dotconfig |-> <<".", "c", "o", "n", "f", "i", "g">>,
      cleaner |-> <<"l", "i", "n", "u", "x", "-", "c", "l", "e", "a", "n", "e", "r">>,
      autostart |-> <<"a", "u", "t", "o", "s", "t", "a", "r", "t">>,
      appdesktop |-> <<"a", "p", "p", ".", "d", "e", "s", "k", "t", "o", "p">> ]

\* the name a spelling stands for; "?" for a spelling no file of the model has
NameOf(chars) ==
    IF \E n \in DOMAIN N : N[n] = chars THEN CHOOSE n \in DOMAIN N : N[n] = chars ELSE "?"

RECURSIVE SplitFrom(_, _, _)
\* the pieces of a string between its "/"s, empty pieces dropped
SplitFrom(s, i, cur) ==
    IF i > Len(s)
    THEN (IF cur = <<>> THEN <<>> ELSE <<cur>>)
    ELSE IF s[i] = "/"
         THEN (IF cur = <<>> THEN <<>> ELSE <<cur>>) \o SplitFrom(s, i + 1, <<>>)
         ELSE SplitFrom(s, i + 1, Append(cur, s[i]))

\* Path::new of an absolute path string, by Path::components: repeated
\* separators, a trailing separator and "." components are dropped
PathOf(s) ==
    LET pieces == SelectSeq(SplitFrom(s, 1, <<>>), LAMBDA c : c /= <<".">>)
    IN  [i \in 1..Len(pieces) |-> NameOf(pieces[i])]

RECURSIVE Spell(_)
\* Path::to_string_lossy of an absolute path
Spell(path) == IF path = <<>> THEN <<>> ELSE <<"/">> \o N[Head(path)] \o Spell(Tail(path))
ToStr(path) == IF path = <<>> THEN <<"/">> ELSE Spell(path)

\* Path::is_absolute
is_absolute(s) == Len(s) >= 1 /\ s[1] = "/"

\* Path::starts_with: whole components only
PathStartsWith(path, base) == IsPrefixSeq(base, path)

\* Path::parent
ParentPath(path) == IF path = <<>> THEN <<>> ELSE Front(path)

Home == <<"home", "u">>
\* dirs::home_dir() found no home directory
NoHome == <<"?">>

(* ------------------------------------------------------------------ *)
(* The file system: a function from the paths that exist to their nodes *)
(* ------------------------------------------------------------------ *)

User == "u"
Root == "root"
Other == "other"

\* what serde_json::from_str::<Vec<TrashItem>> makes of a file's content: the
\* items of a journal, or nothing when the content is no journal
Journal(items) == [ok |-> TRUE, items |-> items]
Unreadable == [ok |-> FALSE, items |-> <<>>]

\* data stands for the bytes of an ordinary file
FileNode(owner, ro, size, data) ==
    [kind |-> "file", owner |-> owner, ro |-> ro, size |-> size, data |-> data,
     target |-> <<>>, journal |-> Unreadable]
DirNode(owner) ==
    [kind |-> "dir", owner |-> owner, ro |-> FALSE, size |-> 0, data |-> 0,
     target |-> <<>>, journal |-> Unreadable]
LinkNode(target) ==
    [kind |-> "symlink", owner |-> User, ro |-> FALSE, size |-> 0, data |-> 0,
     target |-> target, journal |-> Unreadable]
\* the file fs::write leaves when it writes a serialized list of items
JournalNode(owner, items) ==
    [kind |-> "file", owner |-> owner, ro |-> FALSE, size |-> Len(items), data |-> 0,
     target |-> <<>>, journal |-> Journal(items)]

\* the result of a resolution that fails
NoPath == <<"?">>

RECURSIVE Walk(_, _, _, _)
\* cur: the components resolved so far; rest: the components still to resolve
Walk(f, cur, rest, fuel) ==
    IF rest = <<>> THEN cur
    ELSE IF Head(rest) = "dotdot"
    THEN Walk(f, ParentPath(cur), Tail(rest), fuel)
    ELSE LET p == Append(cur, Head(rest)) IN
         IF p \notin DOMAIN f THEN NoPath
         ELSE IF f[p].kind = "symlink"
         THEN (IF fuel = 0 THEN NoPath
               ELSE Walk(f, <<>>, f[p].target \o Tail(rest), fuel - 1))
         ELSE IF Tail(rest) /= <<>> /\ f[p].kind /= "dir" THEN NoPath
         ELSE Walk(f, p, Tail(rest), fuel)

\* Path::canonicalize of an absolute path: symbolic links resolved, the target
\* must exist; NoPath when it fails
canonicalize(f, path) == Walk(f, <<>>, path, MaxLinkHops)

\* Path::exists, Path::is_dir: both follow symbolic links
exists(f, path) == canonicalize(f, path) /= NoPath
is_dir(f, path) == exists(f, path) /\ f[canonicalize(f, path)].kind = "dir"

(* ------------------------------------------------------------------ *)
(* std::fs operations, as the trash subsystem and the commands use them *)
(* ------------------------------------------------------------------ *)

\* where the directory entry a path names lives: the parent resolved, the last
\* component kept as written (rename and remove do not follow a final link)
entry_key(f, path) ==
    IF path = <<>> THEN <<>>
    ELSE LET parent == canonicalize(f, Front(path)) IN
         IF parent = NoPath \/ f[parent].kind /= "dir" THEN NoPath
         ELSE Append(parent, Last(path))

Children(f, dir) == {p \in DOMAIN f : Len(p) = Len(dir) + 1 /\ IsPrefixSeq(dir, p)}

\* fs::rename(src, dst) succeeds
RenameOk(f, src, dst) ==
    LET sk == entry_key(f, src)
        dk == entry_key(f, dst)
    IN  /\ sk /= NoPath /\ sk \in DOMAIN f /\ sk /= <<>>
        /\ dk /= NoPath
        /\ ~IsPrefixSeq(sk, dk)
        /\ dk \in DOMAIN f =>
              IF f[sk].kind = "dir"
              THEN f[dk].kind = "dir" /\ Children(f, dk) = {}
              ELSE f[dk].kind /= "dir"

\* the file system after fs::rename(src, dst): the entry and all below it move
RenameFs(f, src, dst) ==
    LET sk == entry_key(f, src)
        dk == entry_key(f, dst)
        moved == {p \in DOMAIN f : IsPrefixSeq(sk, p)}
        kept == {p \in DOMAIN f : ~IsPrefixSeq(sk, p) /\ ~IsPrefixSeq(dk, p)}
        To(p) == dk \o SubSeq(p, Len(sk) + 1, Len(p))
        From(q) == sk \o SubSeq(q, Len(dk) + 1, Len(q))
    IN  [q \in kept \cup {To(p) : p \in moved} |-> IF q \in kept THEN f[q] ELSE f[From(q)]]

\* remove_path: remove_dir_all for a directory, remove_file otherwise
RemoveOk(f, path) ==
    entry_key(f, path) /= NoPath /\ entry_key(f, path) \in DOMAIN f /\ path /= <<>>
RemoveFs(f, path) ==
    LET k == entry_key(f, path) IN [q \in {p \in DOMAIN f : ~IsPrefixSeq(k, p)} |-> f[q]]

RECURSIVE MkdirFrom(_, _, _, _)
\* fs::create_dir_all by the user uid: [ok, fs]
MkdirFrom(f, uid, cur, rest) ==
    IF rest = <<>> THEN [ok |-> TRUE, fs |-> f]
    ELSE LET p == Append(cur, Head(rest)) IN
         IF p \in DOMAIN f
         THEN (IF is_dir(f, p)
               THEN MkdirFrom(f, uid, canonicalize(f, p), Tail(rest))
               ELSE [ok |-> FALSE, fs |-> f])
         ELSE MkdirFrom(f @@ (p :> DirNode(uid)), uid, p, Tail(rest))
create_dir_all(f, uid, path) == MkdirFrom(f, uid, <<>>, path)

RECURSIVE get_dir_size(_, _), SumSizes(_, _)
\* get_dir_size without the descent into subdirectories
get_dir_size_flat(f, path) ==
    LET dir == canonicalize(f, path) IN
    IF dir = NoPath \/ f[dir].kind /= "dir" THEN 0
    ELSE SumSizes(f, { p \in Children(f, dir) :
                         exists(f, p) /\ f[canonicalize(f, p)].kind = "file" })
\* trash::get_dir_size: the lengths of the files below a directory
get_dir_size(f, path) ==
    LET dir == canonicalize(f, path) IN
    IF dir = NoPath \/ f[dir].kind /= "dir" THEN 0 ELSE SumSizes(f, Children(f, dir))
\* the loop of get_dir_size over the entries of a directory
SumSizes(f, entries) ==
    IF entries = {} THEN 0
    ELSE LET p == CHOOSE y \in entries : TRUE
             size == IF ~exists(f, p) THEN 0
                     ELSE IF f[canonicalize(f, p)].kind = "file"
                     THEN f[canonicalize(f, p)].size
                     ELSE get_dir_size(f, p)
         IN  size + SumSizes(f, entries \ {p})

(* ------------------------------------------------------------------ *)
(* commands/mod.rs: the path security validator                        *)
(* ------------------------------------------------------------------ *)

SecurityContext == {"Deletion", "CacheCleanup", "PackageManagement", "LogCleanup"}
\* startup/mod.rs passes this context; the enum of commands/mod.rs has no such
\* variant and validate_system_critical_paths no arm for it
StartupManagement == "StartupManagement"
Contexts == SecurityContext \cup {StartupManagement}

ValidOk == [kind |-> "Ok", arg |-> <<>>]
SecErr(kind, arg) == [kind |-> kind, arg |-> arg]

traversal_patterns ==
    << <<".", ".", "/">>, <<".", ".", "\\">>, <<"/", ".", ".", "/">>, <<"\\", ".", ".", "\\">> >>
enc_dotdot_slash == <<"%", "2", "e", "%", "2", "e", "%", "2", "f">>
enc_dotdot == <<"%", "2", "e", "%", "2", "e", "/">>

\* layer 1, on the path string as given
validate_path_traversal(path) ==
    IF Contains(path, <<".", ".">>) THEN SecErr("PathTraversal", path)
    ELSE IF \E i \in 1..Len(traversal_patterns) : Contains(path, traversal_patterns[i])
    THEN SecErr("PathTraversal", path)
    ELSE IF Contains(path, enc_dotdot_slash) \/ Contains(path, enc_dotdot)
    THEN SecErr("PathTraversal", path)
    ELSE ValidOk

always_forbidden ==
    << ToStr(<<"bin">>), ToStr(<<"boot">>), ToStr(<<"dev">>), ToStr(<<"etc">>),
       ToStr(<<"lib">>), ToStr(<<"lib64">>), ToStr(<<"proc">>), ToStr(<<"run">>),
       ToStr(<<"sbin">>), ToStr(<<"sys">>),
       ToStr(<<"usr", "bin">>), ToStr(<<"usr", "sbin">>), ToStr(<<"usr", "lib">>),
       ToStr(<<"usr", "local", "bin">>),
       ToStr(<<"var", "lib">>), ToStr(<<"var", "run">>), ToStr(<<"var", "lock">>),
       ToStr(<<"var", "spool">>),
       ToStr(<<"root">>), ToStr(<<"home", "root">>),
       ToStr(<<"etc", "passwd">>), ToStr(<<"etc", "shadow">>), ToStr(<<"etc", "sudoers">>) >>
deletion_forbidden == << ToStr(<<"usr">>), ToStr(<<"opt">>), ToStr(<<"var">>) >>
cache_forbidden == << ToStr(<<"etc">>), ToStr(<<"usr", "bin">>) >>

\* the first prefix of the list the string starts with (str::starts_with), 0 for none
FirstPrefix(list, str) ==
    IF \E i \in 1..Len(list) : StartsWith(str, list[i])
    THEN CHOOSE i \in 1..Len(list) :
            /\ StartsWith(str, list[i])
            /\ \A j \in 1..(i - 1) : ~StartsWith(str, list[j])
    ELSE 0

\* the match on the context of validate_system_critical_paths
context_restrictions(canonical_str, context) ==
    CASE context = "Deletion" ->
            IF FirstPrefix(deletion_forbidden, canonical_str) /= 0
            THEN SecErr("SystemCriticalPath",
                        deletion_forbidden[FirstPrefix(deletion_forbidden, canonical_str)])
            ELSE ValidOk
      [] context = "CacheCleanup" ->
            IF FirstPrefix(cache_forbidden, canonical_str) /= 0
            THEN SecErr("SystemCriticalPath",
                        cache_forbidden[FirstPrefix(cache_forbidden, canonical_str)])
            ELSE ValidOk
      [] context = "PackageManagement" ->
            IF /\ StartsWith(canonical_str, ToStr(<<"etc">>))
               /\ ~StartsWith(canonical_str, ToStr(<<"etc", "apt">>))
            THEN SecErr("SystemCriticalPath", ToStr(<<"etc">>))
            ELSE ValidOk
      [] OTHER -> ValidOk

\* the always-forbidden list is not consulted
validate_system_critical_paths_ctx_only(canonical_path, context) ==
    context_restrictions(ToStr(canonical_path), context)

\* layer 4, on the string of the canonical path
validate_system_critical_paths(canonical_path, context) ==
    IF FirstPrefix(always_forbidden, ToStr(canonical_path)) /= 0
    THEN SecErr("SystemCriticalPath",
                always_forbidden[FirstPrefix(always_forbidden, ToStr(canonical_path))])
    ELSE context_restrictions(ToStr(canonical_path), context)

allowed_system_paths == << <<"var", "cache">>, <<"tmp">> >>

\* prefixes compared as strings, not component by component
validate_filesystem_boundaries_str(home, canonical_path) ==
    IF home = NoHome THEN SecErr("SecurityViolation", <<>>)
    ELSE IF StartsWith(ToStr(canonical_path), ToStr(home)) THEN ValidOk
    ELSE IF \E i \in 1..Len(allowed_system_paths) :
                StartsWith(ToStr(canonical_path), ToStr(allowed_system_paths[i]))
    THEN ValidOk
    ELSE SecErr("OutsideBoundaries", ToStr(canonical_path))

\* layer 5, component by component
validate_filesystem_boundaries(home, canonical_path) ==
    IF home = NoHome THEN SecErr("SecurityViolation", <<>>)
    ELSE IF PathStartsWith(canonical_path, home) THEN ValidOk
    ELSE IF \E i \in 1..Len(allowed_system_paths) :
                PathStartsWith(canonical_path, allowed_system_paths[i])
    THEN ValidOk
    ELSE SecErr("OutsideBoundaries", ToStr(canonical_path))

\* layer 6
validate_permissions(f, uid, canonical_path) ==
    IF canonical_path \notin DOMAIN f THEN SecErr("SecurityViolation", <<>>)
    ELSE IF f[canonical_path].ro THEN SecErr("PermissionDenied", ToStr(canonical_path))
    ELSE IF uid /= Root /\ uid /= f[canonical_path].owner
    THEN SecErr("PermissionDenied", ToStr(canonical_path))
    ELSE ValidOk

\* the boundary check runs before the system-critical check
validate_canonical_boundary_first(f, home, uid, path, canonical_path, context) ==
    IF validate_filesystem_boundaries(home, canonical_path) /= ValidOk
    THEN validate_filesystem_boundaries(home, canonical_path)
    ELSE IF validate_system_critical_paths(canonical_path, context) /= ValidOk
    THEN validate_system_critical_paths(canonical_path, context)
    ELSE IF validate_permissions(f, uid, canonical_path) /= ValidOk
    THEN validate_permissions(f, uid, canonical_path)
    ELSE IF ~exists(f, canonical_path) THEN SecErr("PathDoesNotExist", path)
    ELSE ValidOk

\* layers 4 to 7, on the canonical path
validate_canonical(f, home, uid, path, canonical_path, context) ==
    IF validate_system_critical_paths(canonical_path, context) /= ValidOk
    THEN validate_system_critical_paths(canonical_path, context)
    ELSE IF validate_filesystem_boundaries(home, canonical_path) /= ValidOk
    THEN validate_filesystem_boundaries(home, canonical_path)
    ELSE IF validate_permissions(f, uid, canonical_path) /= ValidOk
    THEN validate_permissions(f, uid, canonical_path)
    ELSE IF ~exists(f, canonical_path) THEN SecErr("PathDoesNotExist", path)
    ELSE ValidOk

\* layers 1 to 3 on the path string, then the layers on the canonical path
validate_path_comprehensive(f, home, uid, path, context) ==
    IF validate_path_traversal(path) /= ValidOk THEN validate_path_traversal(path)
    ELSE IF ~is_absolute(path) THEN SecErr("NonAbsolutePath", path)
    ELSE IF canonicalize(f, PathOf(path)) = NoPath THEN SecErr("SecurityViolation", <<>>)
    ELSE validate_canonical(f, home, uid, path, canonicalize(f, PathOf(path)), context)

(* ------------------------------------------------------------------ *)
(* trash/mod.rs: the trash subsystem                                   *)
(* ------------------------------------------------------------------ *)

IdNames == <<"i1", "i2", "i3", "i4", "i5", "i6", "i7", "i8", "i9">>
\* uuid::Uuid::new_v4().to_string(): the k-th identifier drawn, never drawn before
IdName(k) == IdNames[k]
NoId == ""

TrashDirOf(home) ==
    (IF home = NoHome THEN <<"tmp">> ELSE home) \o <<"dotlocal", "share", "cleaner", "trash">>

\* get_trash_dir creates the directory when it is missing, ignoring a failure:
\* the file system it leaves
get_trash_dir(f, e) ==
    IF exists(f, TrashDirOf(e.home)) THEN f
    ELSE create_dir_all(f, e.uid, TrashDirOf(e.home)).fs

get_metadata_path(e) == Append(TrashDirOf(e.home), "metadata")

Digits == <<"0", "1", "2", "3", "4", "5", "6", "7", "8", "9">>
RECURSIVE Decimal(_)
Decimal(n) ==
    IF n < 10 THEN <<Digits[n + 1]>> ELSE Decimal(n \div 10) \o <<Digits[(n % 10) + 1]>>
\* DateTime::to_rfc3339, the instant counted in days
to_rfc3339(t) == <<"T">> \o Decimal(t)

NoDate == -1
DigitValue(c) == CHOOSE d \in 0..9 : Digits[d + 1] = c
RECURSIVE DecimalValue(_)
DecimalValue(s) ==
    IF s = <<>> THEN 0 ELSE 10 * DecimalValue(Front(s)) + DigitValue(Last(s))
\* str::parse::<DateTime<Utc>>: NoDate when the string is no date
parse_date(s) ==
    IF /\ Len(s) >= 2
       /\ s[1] = "T"
       /\ \A i \in 2..Len(s) : \E d \in 1..10 : Digits[d] = s[i]
    THEN DecimalValue(Tail(s))
    ELSE NoDate

\* struct TrashItem; NoItem stands for the Err of a Result<TrashItem, String>
NoItem ==
    [id |-> NoId, original_path |-> <<>>, trash_path |-> <<>>, deleted_at |-> <<>>,
     expires_at |-> <<>>, size |-> 0, item_type |-> "none", metadata |-> "None"]

\* a load that takes what it can read of a file that is no journal
load_trash_metadata_salvaging(f, e) ==
    LET p == canonicalize(f, get_metadata_path(e)) IN
    IF p /= NoPath /\ f[p].kind = "file" THEN f[p].journal.items ELSE <<>>

\* load_trash_metadata, after its get_trash_dir: a journal that is missing,
\* unreadable or not parseable reads as the empty list
load_trash_metadata(f, e) ==
    LET p == canonicalize(f, get_metadata_path(e)) IN
    IF p /= NoPath /\ f[p].kind = "file" /\ f[p].journal.ok THEN f[p].journal.items ELSE <<>>

\* save_trash_metadata: fs::write rewrites the file whole, creating it when it
\* is missing; when the write fails the file system is left as it was: [ok, fs]
save_trash_metadata(f, e, items, fails) ==
    Let(get_trash_dir(f, e), LAMBDA f1 :
    Let(canonicalize(f1, get_metadata_path(e)), LAMBDA p :
    Let(IF p /= NoPath THEN p ELSE entry_key(f1, get_metadata_path(e)), LAMBDA k :
        IF fails \/ k = NoPath \/ (k \in DOMAIN f1 /\ f1[k].kind /= "file")
        THEN [ok |-> FALSE, fs |-> f1]
        ELSE [ok |-> TRUE,
              fs |-> [q \in DOMAIN f1 \cup {k} |->
                        IF q = k
                        THEN JournalNode(IF k \in DOMAIN f1 THEN f1[k].owner ELSE e.uid, items)
                        ELSE f1[q]]])))

ItemIds(items) == {items[i].id : i \in 1..Len(items)}

\* Iterator::position: the index of the first item with the id, 0 for none
Position(items, id) ==
    IF \E i \in 1..Len(items) : items[i].id = id
    THEN CHOOSE i \in 1..Len(items) :
            items[i].id = id /\ \A j \in 1..(i - 1) : items[j].id /= id
    ELSE 0

\* Vec::remove
RemoveAt(items, idx) == SubSeq(items, 1, idx - 1) \o SubSeq(items, idx + 1, Len(items))

\* the I/O failures of one call: fs::rename, the journal write, create_dir_all,
\* remove_file or remove_dir_all of a cleanup command, and the identifiers of
\* the trashed objects whose removal fails
NoFault ==
    [rename |-> FALSE, save |-> FALSE, mkdir |-> FALSE, unlink |-> FALSE, remove |-> {}]

\* move_to_trash up to the construction of the item (lines 84-116):
\* [res, fs, item]
MoveFsPart(f, e, path, id, now_, retention_days, metadata, flt) ==
    IF ~exists(f, path) THEN [res |-> "PathDoesNotExist", fs |-> f, item |-> NoItem]
    ELSE Let(get_trash_dir(f, e), LAMBDA f1 :
         LET trash_path == Append(TrashDirOf(e.home), id)
             size == IF is_dir(f1, path) THEN get_dir_size(f1, path)
                     ELSE f1[canonicalize(f1, path)].size
             item_type == IF is_dir(f1, path) THEN "directory" ELSE "file"
         IN  IF flt.rename \/ ~RenameOk(f1, path, trash_path)
             THEN [res |-> "RenameFailed", fs |-> f1, item |-> NoItem]
             ELSE [res |-> "Ok",
                   fs |-> RenameFs(f1, path, trash_path),
                   item |-> [id |-> id, original_path |-> path, trash_path |-> trash_path,
                             deleted_at |-> to_rfc3339(now_),
                             expires_at |-> to_rfc3339(now_ + retention_days),
                             size |-> size, item_type |-> item_type,
                             metadata |-> metadata]])

\* the end of move_to_trash with the result of the save dropped (.ok())
MoveJournalPartLenient(f, e, loaded, item, flt) ==
    [res |-> "Ok", fs |-> save_trash_metadata(f, e, Append(loaded, item), flt.save).fs,
     item |-> item]

\* the load, push and save that end move_to_trash (lines 118-122): [res, fs, item]
MoveJournalPart(f, e, loaded, item, flt) ==
    Let(save_trash_metadata(f, e, Append(loaded, item), flt.save), LAMBDA s :
        IF s.ok THEN [res |-> "Ok", fs |-> s.fs, item |-> item]
        ELSE [res |-> "SaveFailed", fs |-> s.fs, item |-> NoItem])

\* move_to_trash: [res, fs, item]
move_to_trash(f, e, path, id, now_, retention_days, metadata, flt) ==
    Let(MoveFsPart(f, e, path, id, now_, retention_days, metadata, flt), LAMBDA m :
        IF m.res /= "Ok" THEN m
        ELSE MoveJournalPart(m.fs, e, load_trash_metadata(get_trash_dir(m.fs, e), e),
                             m.item, flt))

\* restore_from_trash between the load and the save (lines 128-151):
\* [res, fs, items, save], save being "none", "ignored" (.ok()) or "required"
RestoreFsPart(f, e, items, id, flt) ==
    LET idx == Position(items, id) IN
    IF idx = 0 THEN [res |-> "NotFound", fs |-> f, items |-> items, save |-> "none"]
    ELSE Let(items[idx], LAMBDA item :
         Let(IF flt.mkdir THEN [ok |-> FALSE, fs |-> f]
             ELSE create_dir_all(f, e.uid, ParentPath(item.original_path)), LAMBDA mk :
             IF ~exists(f, item.trash_path)
             THEN [res |-> "NoLongerExists", fs |-> f, items |-> RemoveAt(items, idx),
                   save |-> "ignored"]
             ELSE IF ~mk.ok
             THEN [res |-> "ParentFailed", fs |-> mk.fs, items |-> items, save |-> "none"]
             ELSE IF exists(mk.fs, item.original_path)
             THEN [res |-> "AlreadyExists", fs |-> mk.fs, items |-> items, save |-> "none"]
             ELSE IF flt.rename \/ ~RenameOk(mk.fs, item.trash_path, item.original_path)
             THEN [res |-> "RenameFailed", fs |-> mk.fs, items |-> items, save |-> "none"]
             ELSE [res |-> "Ok",
                   fs |-> RenameFs(mk.fs, item.trash_path, item.original_path),
                   items |-> RemoveAt(items, idx), save |-> "required"]))

\* the save that ends an operation, and the Result it makes of it: [res, fs]
FinishSave(e, part, flt) ==
    CASE part.save = "none" -> [res |-> part.res, fs |-> part.fs]
      [] part.save = "ignored" ->
            [res |-> part.res, fs |-> save_trash_metadata(part.fs, e, part.items, flt.save).fs]
      [] part.save = "required" ->
            Let(save_trash_metadata(part.fs, e, part.items, flt.save), LAMBDA s :
                [res |-> IF s.ok THEN part.res ELSE "SaveFailed", fs |-> s.fs])

\* restore_from_trash: [res, fs]
restore_from_trash(f, e, id, flt) ==
    Let(get_trash_dir(f, e), LAMBDA f1 :
        FinishSave(e, RestoreFsPart(f1, e, load_trash_metadata(f1, e), id, flt), flt))

\* delete_from_trash between the load and the save (lines 160-170)
DeleteFsPart(f, e, items, id, flt) ==
    LET idx == Position(items, id) IN
    IF idx = 0 THEN [res |-> "NotFound", fs |-> f, items |-> items, save |-> "none"]
    ELSE LET item == items[idx] IN
         IF exists(f, item.trash_path)
               /\ (item.id \in flt.remove \/ ~RemoveOk(f, item.trash_path))
         THEN [res |-> "RemoveFailed", fs |-> f, items |-> items, save |-> "none"]
         ELSE [res |-> "Ok",
               fs |-> IF exists(f, item.trash_path)
                      THEN RemoveFs(f, item.trash_path) ELSE f,
               items |-> RemoveAt(items, idx), save |-> "required"]

\* delete_from_trash: [res, fs]
delete_from_trash(f, e, id, flt) ==
    Let(get_trash_dir(f, e), LAMBDA f1 :
        FinishSave(e, DeleteFsPart(f1, e, load_trash_metadata(f1, e), id, flt), flt))

RECURSIVE RemoveEach(_, _, _)
\* the loop over the items to purge: a removal that fails is ignored (.ok())
RemoveEach(f, items, failing) ==
    IF items = <<>> THEN f
    ELSE LET item == Head(items)
             f1 == IF /\ exists(f, item.trash_path)
                      /\ item.id \notin failing
                      /\ RemoveOk(f, item.trash_path)
                   THEN RemoveFs(f, item.trash_path) ELSE f
         IN  RemoveEach(f1, Tail(items), failing)

\* empty_trash between the load and the save (lines 178-185)
EmptyFsPart(f, e, items, flt) ==
    [res |-> "Ok", fs |-> RemoveEach(f, items, flt.remove), items |-> <<>>,
     save |-> "required", count |-> Len(items)]

\* empty_trash: [res, fs, count]
empty_trash(f, e, flt) ==
    Let(get_trash_dir(f, e), LAMBDA f1 :
    Let(EmptyFsPart(f1, e, load_trash_metadata(f1, e), flt), LAMBDA part :
    Let(FinishSave(e, part, flt), LAMBDA fin :
        [res |-> fin.res, fs |-> fin.fs,
         count |-> IF fin.res = "Ok" THEN part.count ELSE 0])))

\* the test of cleanup_expired with < for <=
IsExpiredStrict(item, now_) ==
    (IF parse_date(item.expires_at) = NoDate THEN now_ ELSE parse_date(item.expires_at))
        < now_

\* the test of cleanup_expired: a date that does not parse counts as now
IsExpired(item, now_) ==
    (IF parse_date(item.expires_at) = NoDate THEN now_ ELSE parse_date(item.expires_at))
        <= now_

\* cleanup_expired between the load and the save (lines 202-218)
CleanupFsPart(f, e, items, now_, flt) ==
    LET expired == SelectSeq(items, LAMBDA it : IsExpired(it, now_))
        remaining == SelectSeq(items, LAMBDA it : ~IsExpired(it, now_))
    IN  [res |-> "Ok", fs |-> RemoveEach(f, expired, flt.remove), items |-> remaining,
         save |-> "required", count |-> Len(expired)]

\* cleanup_expired: [res, fs, count]
cleanup_expired(f, e, now_, flt) ==
    Let(get_trash_dir(f, e), LAMBDA f1 :
    Let(CleanupFsPart(f1, e, load_trash_metadata(f1, e), now_, flt), LAMBDA part :
    Let(FinishSave(e, part, flt), LAMBDA fin :
        [res |-> fin.res, fs |-> fin.fs,
         count |-> IF fin.res = "Ok" THEN part.count ELSE 0])))

RECURSIVE SumItemSizes(_)
SumItemSizes(items) == IF items = <<>> THEN 0 ELSE Head(items).size + SumItemSizes(Tail(items))
\* get_trash_items: the journal with its total size and its length
get_trash_items(f, e) ==
    Let(load_trash_metadata(get_trash_dir(f, e), e), LAMBDA items :
        [items |-> items, total_size |-> SumItemSizes(items), total_items |-> Len(items)])

(* ------------------------------------------------------------------ *)
(* commands/mod.rs, startup/mod.rs: the cleanup and toggle commands     *)
(* ------------------------------------------------------------------ *)

\* what a command did to which path string, in the order it did it: ev is
\* "validate", "move_to_trash", "remove" or "rewrite"
Ev(ev, path, ok) == [ev |-> ev, path |-> path, ok |-> ok]

\* the locals of a command and the state it works on
Start(f, nid) ==
    [fs |-> f, nextId |-> nid, cleaned |-> 0, failed |-> 0, total_size |-> 0, log |-> <<>>]

\* the identifier is spent once the object carries it
IdSpent(res) == res \in {"Ok", "SaveFailed"}

\* clean_items_inner, one item after its validation (lines 1765-1815)
CleanItemOp(st, e, path, use_trash, retention_days, now_, flt) ==
    IF use_trash
    THEN Let(move_to_trash(st.fs, e, PathOf(path), IdName(st.nextId), now_,
                           retention_days, "Cleanup", flt), LAMBDA r :
             [st EXCEPT !.fs = r.fs,
                        !.nextId = IF IdSpent(r.res) THEN @ + 1 ELSE @,
                        !.cleaned = IF r.res = "Ok" THEN @ + 1 ELSE @,
                        !.total_size = IF r.res = "Ok" THEN @ + r.item.size ELSE @,
                        !.failed = IF r.res = "Ok" THEN @ ELSE @ + 1,
                        !.log = Append(@, Ev("move_to_trash", path, r.res = "Ok"))])
    ELSE Let(~flt.unlink /\ RemoveOk(st.fs, PathOf(path)), LAMBDA ok :
             [st EXCEPT !.fs = IF ok THEN RemoveFs(st.fs, PathOf(path)) ELSE @,
                        !.cleaned = IF ok THEN @ + 1 ELSE @,
                        !.failed = IF ok THEN @ ELSE @ + 1,
                        !.log = Append(@, Ev("remove", path, ok))])

\* the item is cleaned whatever its validation said
CleanItemStepUnchecked(st, e, path, use_trash, retention_days, now_, flt) ==
    LET v == validate_path_comprehensive(st.fs, e.home, e.uid, path, "Deletion") IN
    CleanItemOp([st EXCEPT !.log = Append(@, Ev("validate", path, v = ValidOk))],
                e, path, use_trash, retention_days, now_, flt)

\* clean_items_inner, the body of its loop (lines 1757-1816)
CleanItemStep(st, e, path, use_trash, retention_days, now_, flt) ==
    LET v == validate_path_comprehensive(st.fs, e.home, e.uid, path, "Deletion") IN
    IF v /= ValidOk
    THEN [st EXCEPT !.failed = @ + 1, !.log = Append(@, Ev("validate", path, FALSE))]
    ELSE CleanItemOp([st EXCEPT !.log = Append(@, Ev("validate", path, TRUE))],
                     e, path, use_trash, retention_days, now_, flt)

\* the length of the second list, whatever the first
SecondOf(a, b) == b
\* Iterator::zip: the length of the shorter list
Min(a, b) == IF a <= b THEN a ELSE b

RECURSIVE CleanItemsLoopAbort(_, _, _, _, _, _, _, _, _)
\* the loop ends at the first item that fails
CleanItemsLoopAbort(st, e, item_ids, item_paths, i, use_trash, retention_days, now_, flt) ==
    IF i > Min(Len(item_ids), Len(item_paths)) THEN st
    ELSE Let(CleanItemStep(st, e, item_paths[i], use_trash, retention_days, now_, flt),
             LAMBDA st1 :
             IF st1.failed > st.failed THEN st1
             ELSE CleanItemsLoopAbort(st1, e, item_ids, item_paths, i + 1, use_trash,
                                      retention_days, now_, flt))

RECURSIVE CleanItemsLoop(_, _, _, _, _, _, _, _, _)
\* for (_id, path) in item_ids.iter().zip(item_paths.iter()), from the i-th pair
CleanItemsLoop(st, e, item_ids, item_paths, i, use_trash, retention_days, now_, flt) ==
    IF i > Min(Len(item_ids), Len(item_paths)) THEN st
    ELSE CleanItemsLoop(
             CleanItemStep(st, e, item_paths[i], use_trash, retention_days, now_, flt),
             e, item_ids, item_paths, i + 1, use_trash, retention_days, now_, flt)

\* clean_items_inner: the locals at the return, res being the Result's variant
clean_items_inner(f, e, nid, item_ids, item_paths, use_trash, retention_days, now_, flt) ==
    [res |-> "Ok",
     st |-> CleanItemsLoop(Start(f, nid), e, item_ids, item_paths, 1, use_trash,
                           retention_days, now_, flt)]

\* clean_items, line 1736, in seconds
cleanup_timeout == 300
\* the instants, in seconds after the call, at which the future
\* clean_items_inner is suspended at an .await: its body holds none
InnerSuspensions == {}
\* tokio::time::timeout(duration, future).await and the match on it
\* (1738-1744): the future is polled before the deadline is looked at, so
\* the deadline ends the call only while the future is suspended
timeout(duration, suspended, value) ==
    IF \E t \in suspended : t >= duration
    THEN [res |-> "TimedOut", st |-> value.st]
    ELSE value
\* clean_items
clean_items(f, e, nid, item_ids, item_paths, use_trash, retention_days, now_, flt) ==
    timeout(cleanup_timeout, InnerSuspensions,
            clean_items_inner(f, e, nid, item_ids, item_paths, use_trash, retention_days,
                              now_, flt))

\* validate, then move to the trash: the shape clear_cache, clean_packages,
\* clear_logs and cleanup_old_files share; count_invalid is whether a failed
\* validation is counted in failed
ValidateThenTrash(st, e, path, context, retention_days, metadata, now_, flt, count_invalid) ==
    LET v == validate_path_comprehensive(st.fs, e.home, e.uid, path, context) IN
    IF v /= ValidOk
    THEN [st EXCEPT !.failed = IF count_invalid THEN @ + 1 ELSE @,
                    !.log = Append(@, Ev("validate", path, FALSE))]
    ELSE LET p == PathOf(path)
             size == IF is_dir(st.fs, p) THEN get_dir_size(st.fs, p)
                     ELSE IF exists(st.fs, p) THEN st.fs[canonicalize(st.fs, p)].size
                     ELSE 0
         IN  Let(move_to_trash(st.fs, e, p, IdName(st.nextId), now_, retention_days,
                               metadata, flt), LAMBDA r :
             [st EXCEPT !.fs = r.fs,
                        !.nextId = IF IdSpent(r.res) THEN @ + 1 ELSE @,
                        !.cleaned = IF r.res = "Ok" THEN @ + 1 ELSE @,
                        !.total_size = IF r.res = "Ok" THEN @ + size ELSE @,
                        !.failed = IF r.res = "Ok" THEN @ ELSE @ + 1,
                        !.log = Append(Append(@, Ev("validate", path, TRUE)),
                                       Ev("move_to_trash", path, r.res = "Ok"))])

safe_cache_dirs ==
    << <<"t", "h", "u", "m", "b", "n", "a", "i", "l", "s">>,
       <<"m", "o", "z", "i", "l", "l", "a">>,
       <<"g", "o", "o", "g", "l", "e", "-", "c", "h", "r", "o", "m", "e">>,
       <<"c", "h", "r", "o", "m", "i", "u", "m">>,
       <<"c", "o", "d", "e">>,
       <<"n", "p", "m">>,
       <<"p", "i", "p">>,
       <<"y", "a", "r", "n">>,
       <<"c", "a", "r", "g", "o">>,
       <<"r", "u", "s", "t", "u", "p">> >>

RECURSIVE ClearCacheLoop(_, _, _, _, _)
\* the loop over the entries of ~/.cache, in the order read_dir gives them
ClearCacheLoop(st, e, entries, now_, flt) ==
    IF entries = {} THEN st
    ELSE LET entry_path == CHOOSE p \in entries : TRUE
             dir_name == N[Last(entry_path)]
             st1 == IF \E i \in 1..Len(safe_cache_dirs) : Contains(dir_name, safe_cache_dirs[i])
                    THEN ValidateThenTrash(st, e, ToStr(entry_path), "CacheCleanup", 3,
                                           "Cache", now_, flt, TRUE)
                    ELSE st
         IN  ClearCacheLoop(st1, e, entries \ {entry_path}, now_, flt)

\* clear_cache
clear_cache(f, e, nid, now_, flt) ==
    IF e.home = NoHome THEN [res |-> "Err", st |-> Start(f, nid)]
    ELSE LET cache_dir == e.home \o <<"dotcache">> IN
         IF ~exists(f, cache_dir) THEN [res |-> "Ok", st |-> Start(f, nid)]
         ELSE [res |-> "Ok",
               st |-> IF is_dir(f, cache_dir)
                      THEN ClearCacheLoop(Start(f, nid), e,
                                          { Append(cache_dir, Last(p)) :
                                              p \in Children(f, canonicalize(f, cache_dir)) },
                                          now_, flt)
                      ELSE Start(f, nid)]

\* the two runs of apt: what they add to cleaned, failed and total_size
AptSteps(st, apt_clean_ok, apt_autoremove_ok, prints_size) ==
    [st EXCEPT !.cleaned = @ + (IF apt_clean_ok THEN 1 ELSE 0)
                             + (IF apt_autoremove_ok THEN 1 ELSE 0),
               !.failed = @ + (IF apt_clean_ok THEN 0 ELSE 1)
                            + (IF apt_autoremove_ok THEN 0 ELSE 1),
               !.total_size = @ + (IF apt_autoremove_ok /\ prints_size
                                   THEN 50 * 1024 * 1024 ELSE 0)]

\* clean_packages: the runs of apt, then the pip cache
clean_packages(f, e, nid, now_, flt, apt_clean_ok, apt_autoremove_ok, prints_size) ==
    LET st == AptSteps(Start(f, nid), apt_clean_ok, apt_autoremove_ok, prints_size) IN
    IF e.home = NoHome THEN [res |-> "Err", st |-> st]
    ELSE LET pip_cache == e.home \o <<"dotcache", "pip">> IN
         [res |-> "Ok",
          st |-> IF exists(f, pip_cache)
                 THEN ValidateThenTrash(st, e, ToStr(pip_cache), "PackageManagement", 3,
                                        "Package Cache", now_, flt, FALSE)
                 ELSE st]

RECURSIVE ClearLogsLoop(_, _, _, _, _)
\* the loop over user_log_dirs
ClearLogsLoop(st, e, user_log_dirs, now_, flt) ==
    IF user_log_dirs = <<>> THEN st
    ELSE LET log_dir == Head(user_log_dirs)
             st1 == IF ~exists(st.fs, log_dir) THEN st
                    ELSE ValidateThenTrash(st, e, ToStr(log_dir), "LogCleanup", 7, "Logs",
                                           now_, flt, TRUE)
         IN  ClearLogsLoop(st1, e, Tail(user_log_dirs), now_, flt)

\* clear_logs
clear_logs(f, e, nid, now_, flt) ==
    IF e.home = NoHome THEN [res |-> "Err", st |-> Start(f, nid)]
    ELSE [res |-> "Ok",
          st |-> ClearLogsLoop(Start(f, nid), e,
                               << e.home \o <<"dotlocal", "share", "logs">>,
                                  e.home \o <<"dotcache", "logs">> >>,
                               now_, flt)]

RECURSIVE CleanupOldFilesLoop(_, _, _, _, _)
\* the loop over the paths the file_access table gave
CleanupOldFilesLoop(st, e, old_files, now_, flt) ==
    IF old_files = <<>> THEN st
    ELSE LET path_str == Head(old_files)
             v == validate_path_comprehensive(st.fs, e.home, e.uid, path_str, "Deletion")
             st1 == IF v = ValidOk /\ ~exists(st.fs, PathOf(path_str))
                    THEN [st EXCEPT !.failed = @ + 1,
                                    !.log = Append(@, Ev("validate", path_str, TRUE))]
                    ELSE ValidateThenTrash(st, e, path_str, "Deletion", 30, "Old Files",
                                           now_, flt, TRUE)
         IN  CleanupOldFilesLoop(st1, e, Tail(old_files), now_, flt)

\* cleanup_old_files, old_files being the result of its query
cleanup_old_files(f, e, nid, old_files, now_, flt) ==
    [res |-> "Ok", st |-> CleanupOldFilesLoop(Start(f, nid), e, old_files, now_, flt)]

xdg_prefix == <<"x", "d", "g", "_">>
systemd_prefix == <<"s", "y", "s", "t", "e", "m", "d", "_">>
desktop_ext == <<"d", "e", "s", "k", "t", "o", "p">>
service_ext == <<"s", "e", "r", "v", "i", "c", "e">>

\* the index of the last "." of a file name that starts its extension, 0 for none
LastDot(name) ==
    IF \E i \in 2..Len(name) : name[i] = "."
    THEN CHOOSE i \in 2..Len(name) : name[i] = "." /\ \A j \in (i + 1)..Len(name) : name[j] /= "."
    ELSE 0
\* Path::extension, Path::file_stem
extension(name) == IF LastDot(name) = 0 THEN <<>> ELSE SubSeq(name, LastDot(name) + 1, Len(name))
file_stem(name) == IF LastDot(name) = 0 THEN name ELSE SubSeq(name, 1, LastDot(name) - 1)
\* str::replace(".", "_").replace("-", "_")
replace_underscore(s) == [i \in 1..Len(s) |-> IF s[i] \in {".", "-"} THEN "_" ELSE s[i]]

\* the files of a directory with the extension, as read_dir lists them
EntriesWithExt(f, dir, ext) ==
    IF ~is_dir(f, dir) THEN {}
    ELSE { Append(dir, Last(p)) :
             p \in { q \in Children(f, canonicalize(f, dir)) : extension(N[Last(q)]) = ext } }

\* get_startup_programs: the programs whose files can be read
get_startup_programs(f, e) ==
    IF e.home = NoHome THEN {}
    ELSE LET config_dir == e.home \o <<"dotconfig">>
             readable(p) == exists(f, p) /\ f[canonicalize(f, p)].kind = "file"
         IN  { [id |-> xdg_prefix \o replace_underscore(file_stem(N[Last(p)])),
                name |-> file_stem(N[Last(p)]),
                location |-> "xdg_autostart", file_path |-> ToStr(p)] :
                  p \in { q \in EntriesWithExt(f, Append(config_dir, "autostart"), desktop_ext) :
                            readable(q) } }
             \cup
             { [id |-> systemd_prefix \o replace_underscore(file_stem(N[Last(p)])),
                name |-> file_stem(N[Last(p)]),
                location |-> "systemd_user", file_path |-> ToStr(p)] :
                  p \in { q \in EntriesWithExt(f, config_dir \o <<"systemd", "user">>,
                                               service_ext) : readable(q) } }

\* the content of a desktop file: without a Hidden line, or with Hidden=true
Shown == 1
Hidden == 2

\* toggle_xdg_autostart: the file is read and written anew: [ok, fs]
toggle_xdg_autostart(f, file_path, enabled, flt) ==
    LET p == canonicalize(f, PathOf(file_path)) IN
    IF p = NoPath \/ f[p].kind /= "file" \/ flt.save THEN [ok |-> FALSE, fs |-> f]
    ELSE [ok |-> TRUE, fs |-> [f EXCEPT ![p].data = IF enabled THEN Shown ELSE Hidden]]

\* toggle_startup_program; systemctl_ok is what systemctl answers
toggle_startup_program(f, e, nid, id, enabled, systemctl_ok, flt) ==
    Let({ p \in get_startup_programs(f, e) : p.id = id }, LAMBDA found :
        IF found = {} THEN [res |-> "Err", st |-> Start(f, nid)]
        ELSE
        Let(CHOOSE p \in found : TRUE, LAMBDA program :
        Let(validate_path_comprehensive(f, e.home, e.uid, program.file_path,
                                        StartupManagement), LAMBDA v :
        Let([Start(f, nid) EXCEPT !.log = Append(@, Ev("validate", program.file_path,
                                                       v = ValidOk))], LAMBDA st1 :
            IF v /= ValidOk THEN [res |-> "Err", st |-> st1]
            ELSE IF program.location = "xdg_autostart"
            THEN Let(toggle_xdg_autostart(f, program.file_path, enabled, flt), LAMBDA t :
                     [res |-> IF t.ok THEN "Ok" ELSE "Err",
                      st |-> [st1 EXCEPT !.fs = t.fs,
                                         !.log = Append(@, Ev("rewrite", program.file_path,
                                                              t.ok))]])
            ELSE [res |-> IF systemctl_ok THEN "Ok" ELSE "Err", st |-> st1]))))


(* ------------------------------------------------------------------ *)
(* cache/mod.rs: CacheManager                                          *)
(* ------------------------------------------------------------------ *)

\* an empty HashMap
EmptyMap == [k \in {} |-> 0]
\* CacheEntry<T>
CacheEntry(value, expires_at) == [value |-> value, expires_at |-> expires_at]
\* Option<T>
None == [some |-> FALSE, value |-> 0]
Some(v) == [some |-> TRUE, value |-> v]

\* CacheManager::with_ttls, durations in seconds
with_ttls(dir_size_ttl, scan_result_ttl) ==
    [dir_sizes |-> EmptyMap, scan_results |-> EmptyMap,
     dir_size_ttl |-> dir_size_ttl, scan_result_ttl |-> scan_result_ttl]
\* CacheManager::new
CacheManager_new ==
    [dir_sizes |-> EmptyMap, scan_results |-> EmptyMap,
     dir_size_ttl |-> 300, scan_result_ttl |-> 600]

\* the read both getters make of their map at the instant now_
LookupLenient(map, key, now_) ==
    IF key \in DOMAIN map /\ map[key].expires_at >= now_ THEN Some(map[key].value) ELSE None
Lookup(map, key, now_) ==
    IF key \in DOMAIN map /\ map[key].expires_at > now_ THEN Some(map[key].value) ELSE None
\* HashMap::insert
Insert(map, key, entry) == (key :> entry) @@ map
\* the retain of the sweeps with the test turned round
RetainExpired(map, now_) ==
    [k \in { k \in DOMAIN map : map[k].expires_at <= now_ } |-> map[k]]
\* HashMap::retain(|_, entry| entry.expires_at > now)
RetainLive(map, now_) ==
    [k \in { k \in DOMAIN map : map[k].expires_at > now_ } |-> map[k]]

\* CacheManager::get_dir_size
cache_get_dir_size(c, path, now_) == Lookup(c.dir_sizes, path, now_)
\* CacheManager::set_dir_size
set_dir_size(c, path, size, now_) ==
    [c EXCEPT !.dir_sizes = Insert(@, path, CacheEntry(size, now_ + c.dir_size_ttl))]
\* CacheManager::get_scan_results
get_scan_results(c, key, now_) == Lookup(c.scan_results, key, now_)
\* CacheManager::set_scan_results
set_scan_results(c, key, results, now_) ==
    [c EXCEPT !.scan_results = Insert(@, key, CacheEntry(results, now_ + c.scan_result_ttl))]
\* CacheManager::cleanup_dir_sizes
cleanup_dir_sizes(c, now_) == [c EXCEPT !.dir_sizes = RetainLive(@, now_)]
\* CacheManager::cleanup_scan_results
cleanup_scan_results(c, now_) == [c EXCEPT !.scan_results = RetainLive(@, now_)]
\* CacheManager::clear_all
clear_all(c) == [c EXCEPT !.dir_sizes = EmptyMap, !.scan_results = EmptyMap]
\* CacheManager::stats
stats(c, now_) ==
    [dir_size_entries |-> Cardinality(DOMAIN c.dir_sizes),
     dir_size_expired |->
         Cardinality({ k \in DOMAIN c.dir_sizes : c.dir_sizes[k].expires_at <= now_ }),
     scan_result_entries |-> Cardinality(DOMAIN c.scan_results),
     scan_result_expired |->
         Cardinality({ k \in DOMAIN c.scan_results : c.scan_results[k].expires_at <= now_ })]

\* no CacheManager yet
NoCache == with_ttls(0, 0)
\* the last call on the CacheManager: its name, its key, what it returned
\* and the instant it read
NoCacheOp == [op |-> "none", key |-> <<>>, ret |-> None, at |-> 0]
CacheOp(op, key, ret, at) == [op |-> op, key |-> key, ret |-> ret, at |-> at]
\* for each key the instant and the value of its last set since the last clear_all
NoSets == [dir |-> EmptyMap, scan |-> EmptyMap]

(* ------------------------------------------------------------------ *)
(* scanner/mod.rs: check_memory_limits and scan_system_async            *)
(* ------------------------------------------------------------------ *)

\* a ScanItem: its size and the length of its children, 0 for None
ScanItem(name, size, children) == [name |-> name, size |-> size, children |-> children]
\* what a phase function returns: Ok(items) or Err(e)
PhaseOk(found) == [ok |-> TRUE, items |-> found, error |-> ""]
PhaseErr(e) == [ok |-> FALSE, items |-> <<>>, error |-> e]

\* an entry WalkDir yields: a directory, or a file that qualifies as the item
DirEntry == [is_file |-> FALSE, item |-> ScanItem("", 0, 0)]
FileEntry(item) == [is_file |-> TRUE, item |-> item]
\* Iterator::take(n)
Take(s, n) == SubSeq(s, 1, IF n < Len(s) THEN n ELSE Len(s))
\* the items pushed for the entries looked at
Pushed(entries) ==
    LET files == SelectSeq(entries, LAMBDA en : en.is_file)
    IN  [k \in 1..Len(files) |-> files[k].item]
RECURSIVE SortBySizeDesc(_)
\* items.sort_by(|a, b| b.size.cmp(&a.size)): stable, largest first
SortBySizeDesc(items) ==
    IF items = <<>> THEN <<>>
    ELSE LET rest == SortBySizeDesc(Tail(items))
             before == SelectSeq(rest, LAMBDA it : it.size > Head(items).size)
             after == SelectSeq(rest, LAMBDA it : it.size <= Head(items).size)
         IN  before \o <<Head(items)>> \o after
RECURSIVE WalkEach(_, _)
\* the loop over scan_dirs (700-737): each directory's walk has its own take
WalkEach(walks, max_files) ==
    IF walks = <<>> THEN <<>>
    ELSE Pushed(Take(Head(walks), max_files)) \o WalkEach(Tail(walks), max_files)

\* scan_caches_async (390-472) when no size computation fails: the directories
\* found, whatever the limits say of files
scan_caches_async(limits, found) == PhaseOk(found)
\* scan_package_caches_async (525-618) takes no limits
scan_package_caches_async(found) == PhaseOk(found)
\* scan_logs_async (621-680) when the walk ends in time
scan_logs_async(limits, walk) == PhaseOk(Pushed(Take(walk, limits.max_files)))
\* scan_large_files_async (684-746) when the walks end in time
scan_large_files_async(limits, walks) ==
    PhaseOk(Take(SortBySizeDesc(WalkEach(walks, limits.max_files)), 20))
\* what the blocking task of check_memory_limits gives: the megabytes in
\* use, or a JoinError
Reading(mb) == [joined |-> TRUE, mb |-> mb]
JoinError == [joined |-> FALSE, mb |-> 0]

\* scan_system_async, line 196, in seconds
memory_check_interval == 10
\* ScanLimits of scan_system_async (lines 170-175)
ScanLimits(options) ==
    [max_files |-> IF options.max_files.some THEN options.max_files.value ELSE 50000,
     max_memory_mb |-> IF options.max_memory_mb.some THEN options.max_memory_mb.value
                       ELSE 500]

\* check_memory_limits with >= for >
check_memory_limits_inclusive(limits, reading) ==
    IF ~reading.joined THEN "Memory check task failed"
    ELSE IF reading.mb >= limits.max_memory_mb THEN "Memory usage exceeds limit"
    ELSE "Ok"
\* check_memory_limits: "Ok" or the message of MemoryLimitExceeded
check_memory_limits(limits, reading) ==
    IF ~reading.joined THEN "Memory check task failed"
    ELSE IF reading.mb > limits.max_memory_mb THEN "Memory usage exceeds limit"
    ELSE "Ok"

\* the locals of scan_system_async at its start (lines 177-197)
ScanLocals ==
    [items |-> <<>>, total_size |-> 0, total_items |-> 0, failed_categories |-> <<>>,
     last_memory_check |-> 0, error |-> "",
     app_handle |-> FALSE, total_phases |-> 0, completed_phases |-> 0, events |-> <<>>]
\* the number of enabled phases (lines 183-192)
total_phases(options) ==
      (IF options.include_caches THEN 1 ELSE 0) + (IF options.include_packages THEN 1 ELSE 0)
    + (IF options.include_logs THEN 1 ELSE 0) + (IF options.include_large_files THEN 1 ELSE 0)
\* the locals once the options are read; app_handle tells whether a handle
\* was passed
scan_start(options, app_handle) ==
    [ScanLocals EXCEPT !.app_handle = app_handle, !.total_phases = total_phases(options)]
\* u8 arithmetic of the closure: x.min(100)
MinOf(x, y) == IF x < y THEN x ELSE y
\* the closure emit_progress (201-221): the events handle.emit sends
emit_progress(st, category, phase_progress, phases_completed) ==
    IF ~st.app_handle THEN st
    ELSE [st EXCEPT !.events = Append(@,
            [category |-> category,
             progress |-> IF st.total_phases > 0
                          THEN MinOf((phases_completed * 100 + phase_progress)
                                         \div st.total_phases, 100)
                          ELSE 0,
             phase_progress |-> phase_progress,
             phases_completed |-> phases_completed])]
\* completed_phases += 1
Completed(st) == [st EXCEPT !.completed_phases = @ + 1]

RECURSIVE Tally(_, _, _)
\* the for loop over the items of a phase: total_size and total_items
Tally(st, found, with_children) ==
    IF found = <<>> THEN st
    ELSE Tally([st EXCEPT !.total_size = @ + Head(found).size,
                          !.total_items = @ + 1
                              + (IF with_children THEN Head(found).children ELSE 0)],
               Tail(found), with_children)

\* the match on a phase's result with an Err arm that records nothing
phase_arms_silent(st, category, outcome, with_children) ==
    IF outcome.ok
    THEN [Tally(st, outcome.items, with_children) EXCEPT !.items = @ \o outcome.items]
    ELSE st
\* the match on a phase's result: the Ok arm and the Err arm, each counting
\* the phase as completed before it emits
phase_arms(st, category, outcome, with_children) ==
    IF outcome.ok
    THEN Let(Completed([Tally(st, outcome.items, with_children)
                            EXCEPT !.items = @ \o outcome.items]),
             LAMBDA s1 : emit_progress(s1, category, 100, s1.completed_phases))
    ELSE Let(Completed([st EXCEPT !.failed_categories =
                            Append(@, [category |-> category, error |-> outcome.error])]),
             LAMBDA s1 : emit_progress(s1, category, 100, s1.completed_phases))
\* a phase: the event that opens it, then the match on its result
phase(st, category, outcome, with_children) ==
    phase_arms(emit_progress(st, category, 0, st.completed_phases), category, outcome,
               with_children)

\* whether the block "Check memory usage" calls check_memory_limits at now_
CheckDue(st, now_) == now_ - st.last_memory_check > memory_check_interval
\* the block "Check memory usage": an error ends the run; update tells
\* whether the block assigns last_memory_check
memory_block(st, limits, now_, reading, update) ==
    IF ~CheckDue(st, now_) THEN st
    ELSE IF check_memory_limits(limits, reading) /= "Ok"
    THEN [st EXCEPT !.error = check_memory_limits(limits, reading)]
    ELSE IF update THEN [st EXCEPT !.last_memory_check = now_] ELSE st

\* if options.include_caches { .. } (223-263): the phase took d seconds
caches_block(st, limits, outcome, now_, reading) ==
    memory_block(phase(st, "caches", outcome, TRUE), limits, now_, reading, TRUE)
\* if options.include_packages { .. } (265-301)
packages_block(st, limits, outcome, now_, reading) ==
    memory_block(phase(st, "packages", outcome, FALSE), limits, now_, reading, TRUE)
\* if options.include_logs { .. } (303-330): no memory check
logs_block(st, outcome) == phase(st, "logs", outcome, FALSE)
\* the memory check that opens if options.include_large_files { .. } (332-340)
large_files_check(st, limits, now_, reading) == memory_block(st, limits, now_, reading, FALSE)
\* the rest of the block (342-368)
large_files_block(st, outcome) == phase(st, "large_files", outcome, FALSE)
\* the final memory check (373), made whatever the time, and the event that
\* closes the run (376)
final_check(st, limits, reading) ==
    IF check_memory_limits(limits, reading) /= "Ok"
    THEN [st EXCEPT !.error = check_memory_limits(limits, reading)]
    ELSE emit_progress(st, "complete", 100, st.completed_phases)

\* what scan_system_async returns
NoReturn ==
    [kind |-> "none", error |-> "", items |-> <<>>, total_size |-> 0, total_items |-> 0,
     failed_categories |-> <<>>]
\* Err(ScannerError::MemoryLimitExceeded(..))
ReturnErr(st) == [NoReturn EXCEPT !.kind = "MemoryLimitExceeded", !.error = st.error]
\* Ok(ScanResults { .. }) (378-385)
ReturnOk(st) ==
    [kind |-> "Ok", error |-> "", items |-> st.items, total_size |-> st.total_size,
     total_items |-> st.total_items, failed_categories |-> st.failed_categories]

\* ScanOptions, the fields scan_system_async reads
ScanOptions(caches, packages, logs, large_files, max_files, max_memory_mb) ==
    [include_caches |-> caches, include_packages |-> packages, include_logs |-> logs,
     include_large_files |-> large_files, max_files |-> max_files,
     max_memory_mb |-> max_memory_mb]

\* no scan running
NoScan ==
    [pc |-> "idle", options |-> ScanOptions(FALSE, FALSE, FALSE, FALSE, None, None),
     clock |-> 0, st |-> ScanLocals, ret |-> NoReturn,
     attempted |-> <<>>, outcomes |-> <<>>, checks |-> <<>>]
(* ------------------------------------------------------------------ *)
(* scanner/mod.rs, the storage recovery suite: scan_duplicate_files,   *)
(* compute_file_hash_chunked, the two size and age scans and           *)
(* scan_storage_recovery                                                *)
(* ------------------------------------------------------------------ *)

\* an entry of the walk below the home directory. The bytes of a file are 0
\* but at the offsets in ones, where they are 1; rank is the place of the path
\* in the order of paths; age_seconds is modified.elapsed(), -1 when the
\* modification time lies in the future
WalkFile(name, rank, size, ones, readable, stat_ok, in_downloads, age_seconds) ==
    [name |-> name, rank |-> rank, is_file |-> TRUE, size |-> size, ones |-> ones,
     readable |-> readable, stat_ok |-> stat_ok, in_downloads |-> in_downloads,
     age_seconds |-> age_seconds]
\* a directory or a symbolic link: e.file_type().is_file() is false
WalkOther(name, rank) ==
    [name |-> name, rank |-> rank, is_file |-> FALSE, size |-> 0, ones |-> {},
     readable |-> TRUE, stat_ok |-> TRUE, in_downloads |-> FALSE, age_seconds |-> 0]

\* AnyhowResult of a sub-scan: Ok(list) or Err(context)
SubOk(list) == [ok |-> TRUE, list |-> list, error |-> ""]
SubErr(e) == [ok |-> FALSE, list |-> <<>>, error |-> e]

\* const CHUNK_SIZE: u64 = 64 * 1024
CHUNK_SIZE == 65536

\* the len bytes read at offset start, as a Vec<u8>
Window(file, start, len) ==
    [len |-> len, ones |-> { p - start : p \in { q \in file.ones : q >= start /\ q < start + len } }]

\* what the hasher was fed and nothing else: DefaultHasher is taken to give
\* different values for different feeds
Fed(file_size, chunks) == [file_size |-> file_size, chunks |-> chunks]

\* a fingerprint of the size and the first chunk only
compute_file_hash_first(file) ==
    IF ~file.readable THEN [ok |-> FALSE, hash |-> Fed(0, <<>>)]
    ELSE [ok |-> TRUE,
          hash |-> Fed(file.size,
                       IF file.size > 0
                       THEN << Window(file, 0, MinOf(CHUNK_SIZE, file.size)) >> ELSE <<>>)]

\* compute_file_hash_chunked (1040-1089): [ok, hash]; a file that cannot be
\* opened or read gives an error
compute_file_hash_chunked(file) ==
    IF ~file.readable THEN [ok |-> FALSE, hash |-> Fed(0, <<>>)]
    ELSE LET file_size == file.size
             first == IF file_size > 0
                      THEN << Window(file, 0, MinOf(CHUNK_SIZE, file_size)) >> ELSE <<>>
             mid_start == file_size \div 2
             middle == IF file_size > CHUNK_SIZE * 2
                       THEN << Window(file, mid_start,
                                      MinOf(CHUNK_SIZE, file_size - mid_start)) >>
                       ELSE <<>>
             last_start == IF file_size > CHUNK_SIZE THEN file_size - CHUNK_SIZE ELSE 0
             last == IF file_size > CHUNK_SIZE
                     THEN << Window(file, last_start, file_size - last_start) >> ELSE <<>>
         IN  [ok |-> TRUE, hash |-> Fed(file_size, first \o middle \o last)]

\* the files the walk hands to the loop: regular files, at most n of them
Walked(walk, n) == Take(SelectSeq(walk, LAMBDA e : e.is_file), n)

\* a floor that lets the files of exactly 1 KiB in
AtLeastFloor(size) == size >= 1024
\* if size > 1024 (1130)
AboveFloor(size) == size > 1024

\* the first pass (1118-1141): the files whose metadata reads and whose size
\* is above the floor, in the order of the walk; the bucket of a size is the
\* subsequence of that size
FirstPass(walk) ==
    SelectSeq(Walked(walk, 10000), LAMBDA f : f.stat_ok /\ AboveFloor(f.size))
SizeBucket(kept, size) == SelectSeq(kept, LAMBDA f : f.size = size)

\* the members of a bucket with the fingerprint hash; a file whose hashing
\* fails is in none (1151-1160)
HashGroup(bucket, hash) ==
    SelectSeq(bucket, LAMBDA f : compute_file_hash_chunked(f).ok
                                 /\ compute_file_hash_chunked(f).hash = hash)

\* the ScanItem pushed for the n-th member of a group (1171-1183)
DuplicateItem(file, size, hash, n) ==
    [id |-> <<"dup", hash, n>>, name |-> file.name, path |-> file.name, size |-> size,
     category |-> "duplicate"]
\* DuplicateGroup { .. } (1186-1192)
DuplicateGroup(n, members, size, hash) ==
    [id |-> <<"dup_group", n>>,
     files |-> [k \in 1..Len(members) |-> DuplicateItem(members[k], size, hash, k - 1)],
     total_size |-> size * Len(members),
     group_size |-> Len(members)]

RECURSIVE SecondPass(_, _, _)
\* the second pass (1144-1197), the groups in the order in which their first
\* members were walked (the HashMaps iterate in no particular order): a bucket
\* of one file is not hashed, a group of one file is not reported
SecondPass(kept, i, duplicates) ==
    IF i > Len(kept) THEN duplicates
    ELSE LET file == kept[i]
             bucket == SizeBucket(kept, file.size)
             h == compute_file_hash_chunked(file)
             members == HashGroup(bucket, h.hash)
             leads == /\ Len(bucket) > 1
                      /\ h.ok
                      /\ members[1].name = file.name
                      /\ Len(members) > 1
         IN  SecondPass(kept, i + 1,
                        IF leads
                        THEN Append(duplicates,
                                    DuplicateGroup(Len(duplicates), members, file.size, h.hash))
                        ELSE duplicates)

\* scan_duplicate_files (1093-1201); home is what dirs::home_dir() returns
scan_duplicate_files(home, walk) ==
    IF home = NoHome THEN SubErr("Cannot determine home directory")
    ELSE SubOk(SecondPass(FirstPass(walk), 1, <<>>))

\* the ScanItem of the two other scans
RecoveryItem(file, category, n) ==
    [id |-> <<category, n>>, name |-> file.name, path |-> file.name, size |-> file.size,
     category |-> category]
Numbered(files, category) ==
    [k \in 1..Len(files) |-> RecoveryItem(files[k], category, k - 1)]

\* scan_large_files_storage_recovery (1205-1274)
scan_large_files_storage_recovery(home, walk, min_size) ==
    IF home = NoHome THEN SubErr("Cannot determine home directory")
    ELSE SubOk(SortBySizeDesc(Numbered(
             SelectSeq(Walked(walk, 5000), LAMBDA f : f.stat_ok /\ f.size >= min_size),
             "large_file")))

RECURSIVE SortByPath(_)
\* old_downloads.sort_by(|a, b| a.path.cmp(&b.path)), on [item, rank] pairs
SortByPath(pairs) ==
    IF pairs = <<>> THEN <<>>
    ELSE LET rest == SortByPath(Tail(pairs))
             before == SelectSeq(rest, LAMBDA p : p.rank < Head(pairs).rank)
             after == SelectSeq(rest, LAMBDA p : p.rank >= Head(pairs).rank)
         IN  before \o <<Head(pairs)>> \o after

\* scan_old_downloads (1277-1357): the files of the Downloads directory older
\* than the threshold, sorted by path
scan_old_downloads(home, walk, days_threshold) ==
    IF home = NoHome THEN SubErr("Cannot determine home directory")
    ELSE LET threshold_seconds == days_threshold * 24 * 3600
             old == SelectSeq(walk, LAMBDA f : /\ f.is_file /\ f.in_downloads /\ f.stat_ok
                                               /\ f.age_seconds > threshold_seconds)
             pairs == [k \in 1..Len(old) |->
                          [item |-> RecoveryItem(old[k], "old_download", k - 1),
                           rank |-> old[k].rank]]
             sorted == SortByPath(pairs)
         IN  SubOk([k \in 1..Len(sorted) |-> sorted[k].item])

RECURSIVE SumTotalSizes(_)
\* duplicates.iter().map(|g| g.total_size).sum()
SumTotalSizes(groups) ==
    IF groups = <<>> THEN 0 ELSE Head(groups).total_size + SumTotalSizes(Tail(groups))

\* no StorageRecoveryResults
NoRecovery ==
    [kind |-> "none", error |-> "", duplicates |-> <<>>, large_files |-> <<>>,
     old_downloads |-> <<>>, total_duplicate_size |-> 0, total_large_files_size |-> 0,
     total_old_downloads_size |-> 0, total_recoverable_size |-> 0]
RecoveryErr(e) == [NoRecovery EXCEPT !.kind = "Err", !.error = e]
\* Ok(StorageRecoveryResults { .. }) (1027-1035)
RecoveryOk(duplicates, large_files, old_downloads) ==
    Let(SumTotalSizes(duplicates), LAMBDA d :
    Let(SumItemSizes(large_files), LAMBDA l :
    Let(SumItemSizes(old_downloads), LAMBDA o :
        [kind |-> "Ok", error |-> "", duplicates |-> duplicates, large_files |-> large_files,
         old_downloads |-> old_downloads, total_duplicate_size |-> d,
         total_large_files_size |-> l, total_old_downloads_size |-> o,
         total_recoverable_size |-> d + l + o])))

\* scanner::scan_storage_recovery (1003-1036); homes are the answers of
\* dirs::home_dir() to the three sub-scans. Each ? returns the first error to
\* the caller, and a sub-scan after a failed one does not run
scan_storage_recovery(homes, walk) ==
    Let(scan_duplicate_files(homes[1], walk), LAMBDA duplicates :
    IF ~duplicates.ok THEN RecoveryErr("Failed to scan for duplicate files")
    ELSE
    Let(scan_large_files_storage_recovery(homes[2], walk, 1024 * 1024 * 1024), LAMBDA large_files :
    IF ~large_files.ok THEN RecoveryErr("Failed to scan for large files")
    ELSE
    Let(scan_old_downloads(homes[3], walk, 90), LAMBDA old_downloads :
    IF ~old_downloads.ok THEN RecoveryErr("Failed to scan for old downloads")
    ELSE RecoveryOk(duplicates.list, large_files.list, old_downloads.list))))

\* the command scan_storage_recovery (commands/mod.rs 1411-1481): the scan runs
\* in a blocking task under a timeout of 600 seconds; task says how the task
\* ended. Filling the file_access table and storing the results may fail
\* without changing what is returned
scan_storage_recovery_command(task, homes, walk) ==
    CASE task = "timeout" -> RecoveryErr("Storage recovery scan timed out")
      [] task = "panicked" -> RecoveryErr("Storage recovery scan task failed")
      [] OTHER ->
            Let(scan_storage_recovery(homes, walk), LAMBDA results :
                IF results.kind = "Err"
                THEN RecoveryErr("Storage recovery scan failed")
                ELSE results)

(* ------------------------------------------------------------------ *)
(* commands/mod.rs, the DiskPulse monitoring: MONITORING_STATE and the  *)
(* tasks and watchers that are alive                                    *)
(* ------------------------------------------------------------------ *)

\* Option of a task or watcher: 0 is None
NoHandle == 0

\* MonitoringState::new() (2202-2208)
MonitoringState_new ==
    [disk_monitoring_task |-> NoHandle, cache_watcher |-> NoHandle, is_running |-> FALSE]

\* the monitoring as a whole: the state behind the mutex, the sampler tasks
\* and the watchers alive (a watcher's event task ends with its watcher), the
\* handles given out so far, the row diskpulse_running of the database, and
\* the last call
NoMonitoring ==
    [state |-> MonitoringState_new, samplers |-> {}, watchers |-> {}, spawned |-> 0,
     db |-> "none", n |-> 0, op |-> "none", res |-> "none",
     watcher_fails |-> FALSE, db_fails |-> FALSE]

\* start_diskpulse_monitoring (2217-2259), under the lock from beginning to
\* end: the sampler is spawned before setup_cache_watcher is tried, and the ?
\* on its error drops the JoinHandle, which leaves the task running
start_diskpulse_monitoring(m, watcher_fails, db_fails) ==
    IF m.state.is_running THEN [m EXCEPT !.res = "Ok"]
    ELSE Let(m.spawned + 1, LAMBDA disk_task :
         IF watcher_fails
         THEN [m EXCEPT !.spawned = disk_task, !.samplers = @ \cup {disk_task},
                        !.res = "Err"]
         ELSE Let(m.spawned + 2, LAMBDA cache_watcher :
             [m EXCEPT !.spawned = cache_watcher,
                       !.samplers = @ \cup {disk_task},
                       !.watchers = @ \cup {cache_watcher},
                       !.state = [disk_monitoring_task |-> disk_task,
                                  cache_watcher |-> cache_watcher, is_running |-> TRUE],
                       !.db = IF db_fails THEN @ ELSE "true",
                       !.res = IF db_fails THEN "Err" ELSE "Ok"]))

\* stop_diskpulse_monitoring (2261-2292): the task of the state is aborted and
\* the watcher dropped before the database is written
stop_diskpulse_monitoring(m, db_fails) ==
    IF ~m.state.is_running THEN [m EXCEPT !.res = "Ok"]
    ELSE [m EXCEPT !.samplers = @ \ {m.state.disk_monitoring_task},
                   !.watchers = @ \ {m.state.cache_watcher},
                   !.state = MonitoringState_new,
                   !.db = IF db_fails THEN @ ELSE "false",
                   !.res = IF db_fails THEN "Err" ELSE "Ok"]

(* ------------------------------------------------------------------ *)
(* Sample file systems and inputs                                      *)
(* ------------------------------------------------------------------ *)

TrashDir == TrashDirOf(Home)

SystemTree ==
       (<<>> :> DirNode(Root))
    @@ (<<"etc">> :> DirNode(Root))
    @@ (<<"etc", "passwd">> :> FileNode(Root, FALSE, 2, 1))
    @@ (<<"etcetera">> :> FileNode(User, FALSE, 1, 1))
    @@ (<<"bin">> :> DirNode(Root))
    @@ (<<"bin", "ls">> :> FileNode(Root, FALSE, 3, 1))
    @@ (<<"usr">> :> DirNode(Root))
    @@ (<<"usr", "bin">> :> DirNode(Root))
    @@ (<<"usr", "share">> :> DirNode(Root))
    @@ (<<"usr", "share", "doc">> :> FileNode(User, FALSE, 1, 1))
    @@ (<<"opt">> :> DirNode(Root))
    @@ (<<"opt", "app">> :> FileNode(User, FALSE, 2, 1))
    @@ (<<"var">> :> DirNode(Root))
    @@ (<<"var", "cache">> :> DirNode(Root))
    @@ (<<"var", "cache", "app">> :> DirNode(User))
    @@ (<<"var", "log">> :> DirNode(Root))
    @@ (<<"var", "log", "x">> :> FileNode(User, FALSE, 1, 1))
    @@ (<<"tmp">> :> DirNode(Root))
    @@ (<<"tmp", "x">> :> FileNode(User, FALSE, 1, 2))
    @@ (<<"tmpfoo">> :> FileNode(User, FALSE, 1, 1))
    @@ (<<"srv">> :> DirNode(Root))
    @@ (<<"srv", "data">> :> FileNode(User, FALSE, 1, 1))
    @@ (<<"root">> :> DirNode(Root))
    @@ (<<"root", "f">> :> FileNode(Root, FALSE, 1, 1))
    @@ (<<"home">> :> DirNode(Root))
    @@ (<<"home", "u2">> :> DirNode(Other))
    @@ (<<"home", "u2", "b">> :> FileNode(User, FALSE, 1, 1))

HomeTree ==
       (Home :> DirNode(User))
    @@ (Home \o <<"a">> :> FileNode(User, FALSE, 2, 1))
    @@ (Home \o <<"d">> :> DirNode(User))
    @@ (Home \o <<"d", "f">> :> FileNode(User, FALSE, 3, 2))
    @@ (Home \o <<"ro">> :> FileNode(User, TRUE, 1, 1))
    @@ (Home \o <<"oth">> :> FileNode(Other, FALSE, 1, 1))
    @@ (Home \o <<"lnk">> :> LinkNode(<<"etc", "passwd">>))
    @@ (Home \o <<"tl">> :> LinkNode(<<"tmp", "x">>))
    @@ (Home \o <<"dl">> :> LinkNode(Home \o <<"d">>))
    @@ (Home \o <<"bad">> :> LinkNode(<<"nope">>))

BigFs == SystemTree @@ HomeTree

TraversalFrags ==
    { <<"/">>, <<".">>, <<"\\">>, <<"a">>,
      <<"%", "2", "e">>, <<"%", "2", "E">>, <<"%", "2", "f">> }

RECURSIVE FragStrings(_)
\* the strings made of at most n fragments
FragStrings(n) ==
    IF n = 0 THEN {<<>>}
    ELSE FragStrings(n - 1) \cup {s \o t : s \in FragStrings(n - 1), t \in TraversalFrags}

\* the path strings handed to the validator: every object of the sample, paths
\* that do not exist, relative and unnormalised spellings, traversal strings
ValidatorInputs ==
    { ToStr(p) : p \in DOMAIN BigFs }
    \cup { ToStr(Home \o <<"gone">>), ToStr(<<"nope">>), ToStr(<<"etc", "shadow">>),
           ToStr(Home \o <<"dl", "f">>), ToStr(Home \o <<"a", "x">>),
           ToStr(Home \o <<"dotdot", "dotdot", "etc", "passwd">>),
           N.a, N.home \o <<"/">> \o N.u,
           ToStr(Home) \o <<"/", ".", "/">> \o N.a, ToStr(Home) \o <<"/", "/">> \o N.a,
           ToStr(Home) \o <<"/">> \o N.a \o <<"/">> }
    \cup FragStrings(MaxFrags)

\* the invoking user and what dirs::home_dir() gives
Envs ==
    { [home |-> Home, uid |-> User], [home |-> Home, uid |-> Root],
      [home |-> NoHome, uid |-> User] }
UserEnv == [home |-> Home, uid |-> User]

\* the state initialize_app leaves: the trash root made, the journal written
\* by its cleanup_expired
Initialized(f, e) == cleanup_expired(f, e, 0, NoFault).fs

\* the file system of the trash runs: a home directory with a file, a directory
\* holding a file and a link into /tmp
TrashFs ==
    Initialized(
          (<<>> :> DirNode(Root))
       @@ (<<"tmp">> :> DirNode(Root))
       @@ (<<"tmp", "x">> :> FileNode(User, FALSE, 1, 2))
       @@ (<<"home">> :> DirNode(Root))
       @@ (Home :> DirNode(User))
       @@ (Home \o <<"d">> :> DirNode(User))
       @@ (Home \o <<"d", "f">> :> FileNode(User, FALSE, 3, 2))
       @@ (Home \o <<"tl">> :> LinkNode(<<"tmp", "x">>)),
       UserEnv)

\* the paths handed to move_to_trash: the objects above, an object that
\* already lies in the trash root, and the journal file
TrashSources ==
    { Home \o <<"d">>, Home \o <<"tl">>, <<"tmp", "x">>, Append(TrashDir, IdName(1)),
      get_metadata_path(UserEnv) }

\* retention_days of the calls
Retentions == {1}

\* at most one I/O failure in a call
FaultChoices ==
    { NoFault, [NoFault EXCEPT !.rename = TRUE], [NoFault EXCEPT !.save = TRUE],
      [NoFault EXCEPT !.mkdir = TRUE], [NoFault EXCEPT !.remove = {IdName(1)}] }

\* the failures a call of the operation can meet
FaultsFor(op) ==
    { flt \in FaultChoices :
        /\ flt.rename => op \in {"move_to_trash", "restore_from_trash"}
        /\ flt.mkdir => op = "restore_from_trash"
        /\ flt.remove /= {} => op \in {"delete_from_trash", "empty_trash", "cleanup_expired"} }

(* ------------------------------------------------------------------ *)
(* State                                                               *)
(* ------------------------------------------------------------------ *)

VARIABLES
    fs,        \* the file system, the journal file metadata.json included
    env,       \* [home, uid]: the caller's home directory and user
    vPath,     \* validator: the path string of the call
    vCtx,      \* validator: the SecurityContext of the call
    vResult,   \* validator: Pending, or the Result the call returned
    nextId,    \* trash: how many identifiers were drawn, plus one
    now,       \* the clock, in days
    tOp,       \* trash: the last call, its arguments and failures, what it returned, the file system and the identifiers in the journal before it
    departed,  \* trash: the identifiers that were in the journal and left it
    snap,      \* trash: the file system before the last move_to_trash; valid while nothing else happened
    procs,     \* concurrent trash: where each running call stands, and its locals
    written,   \* concurrent trash: the identifiers a call's save added to the journal
    removed,   \* concurrent trash: the identifiers a call's save took out of the journal
    cOp,       \* commands: the last command, its arguments and what it returned
    tList,     \* trash: what the last get_trash_items returned, while nothing happened since
    cache,     \* cache: the CacheManager, its two maps and its two TTLs
    instant,   \* cache: Instant::now()
    kOp,       \* cache: the last call, its key, what it returned and the CacheManager before it
    kSets,     \* cache: for each map and key, the instant and the value of the last set
    scan,      \* scanner: one run of scan_system_async, its position and its locals
    dup,       \* scanner: the last storage recovery call, its inputs and what it returned
    mon        \* commands: the DiskPulse monitoring state and the tasks alive

Pending == [kind |-> "Pending", arg |-> <<>>]
NoOp == [n |-> 0, op |-> "none", res |-> "none", id |-> NoId, count |-> 0,
         before |-> {}, wasDeparted |-> FALSE, roundTrip |-> FALSE,
         path |-> <<>>, retention |-> 0, at |-> 0, pre |-> <<>>]
NoSnap == [valid |-> FALSE, fs |-> <<>>, id |-> NoId]
NoCmd == [n |-> 0, op |-> "none", res |-> "none", item_ids |-> <<>>, item_paths |-> <<>>,
          use_trash |-> FALSE, fault |-> NoFault, cleaned |-> 0, failed |-> 0,
          total_size |-> 0, log |-> <<>>, pre |-> <<>>, secs |-> <<>>]

\* no storage recovery call made
NoDup ==
    [op |-> "none", walk |-> <<>>, homes |-> <<>>, task |-> "none",
     duplicates |-> SubOk(<<>>), ret |-> NoRecovery]

NoList == [listed |-> FALSE, items |-> <<>>, total_size |-> 0, total_items |-> 0]

Procs == {1, 2}
IdleProc == [pc |-> "idle", op |-> "none", id |-> NoId, loaded |-> <<>>, items |-> <<>>,
             item |-> NoItem]

envVars == <<fs, env>>
validatorVars == <<vPath, vCtx, vResult>>
trashVars == <<nextId, now, tOp, departed, snap>>
concVars == <<procs, written, removed>>
cacheVars == <<cache, instant, kOp, kSets>>
scanVars == <<scan>>
recoveryVars == <<dup>>
monitorVars == <<mon>>
vars == <<fs, env, vPath, vCtx, vResult, nextId, now, tOp, departed, snap, procs, written,
          removed, cOp, tList, cache, instant, kOp, kSets, scan, dup, mon>>

ValidatorIdle == vPath = <<>> /\ vCtx = "Deletion" /\ vResult = Pending
TrashIdle == nextId = 1 /\ now = 0 /\ tOp = NoOp /\ departed = {} /\ snap = NoSnap
ConcIdle == procs = [p \in Procs |-> IdleProc] /\ written = {} /\ removed = {}
CmdIdle == cOp = NoCmd
ListIdle == tList = NoList
CacheIdle == cache = NoCache /\ instant = 0 /\ kOp = NoCacheOp /\ kSets = NoSets
ScanIdle == scan = NoScan
RecoveryIdle == dup = NoDup
MonitorIdle == mon = NoMonitoring

(* ------------------------------------------------------------------ *)
(* SpecValidate: one call of validate_path_comprehensive               *)
(* ------------------------------------------------------------------ *)

InitValidate ==
    /\ fs = BigFs
    /\ env \in Envs
    /\ vPath \in ValidatorInputs
    /\ vCtx \in Contexts
    /\ vResult = Pending
    /\ TrashIdle /\ ConcIdle /\ CmdIdle /\ ListIdle /\ CacheIdle /\ ScanIdle
    /\ RecoveryIdle /\ MonitorIdle

ValidateCall ==
    /\ vResult = Pending
    /\ vResult' = validate_path_comprehensive(fs, env.home, env.uid, vPath, vCtx)
    /\ UNCHANGED <<envVars, vPath, vCtx, trashVars, concVars, cOp, tList, cacheVars, scanVars, recoveryVars, monitorVars>>

NextValidate == ValidateCall

SpecValidate == InitValidate /\ [][NextValidate]_vars

(* ------------------------------------------------------------------ *)
(* SpecTrash: the trash operations, one call after another, with I/O    *)
(* failures                                                            *)
(* ------------------------------------------------------------------ *)

InitTrash ==
    /\ fs = TrashFs
    /\ env = UserEnv
    /\ ValidatorIdle /\ TrashIdle /\ ConcIdle /\ CmdIdle /\ ListIdle /\ CacheIdle /\ ScanIdle
    /\ RecoveryIdle /\ MonitorIdle

\* the journal as the next call will load it
JournalItems == load_trash_metadata(fs, env)
JournalIds == ItemIds(JournalItems)

\* what every call leaves behind: the file system and the identifiers that left
\* the journal
TrashEffect(f2) ==
    /\ fs' = f2
    /\ departed' = departed \cup (JournalIds \ ItemIds(load_trash_metadata(f2, env)))

\* one call of move_to_trash
MoveCall(path, rd, flt) ==
    /\ tOp.n < MaxCalls
    /\ nextId <= MaxIds
    /\ LET r == move_to_trash(fs, env, path, IdName(nextId), now, rd, "Cleanup", flt)
       IN  /\ TrashEffect(r.fs)
           /\ nextId' = IF IdSpent(r.res) THEN nextId + 1 ELSE nextId
           /\ tOp' = [NoOp EXCEPT !.n = tOp.n + 1, !.before = JournalIds, !.pre = fs,
                                  !.at = now, !.op = "move_to_trash", !.res = r.res,
                                  !.id = r.item.id, !.path = path, !.retention = rd]
           /\ snap' = IF r.res = "Ok"
                      THEN [valid |-> TRUE, fs |-> fs, id |-> r.item.id]
                      ELSE NoSnap
    /\ UNCHANGED <<env, validatorVars, now, concVars, cOp, cacheVars, scanVars, recoveryVars, monitorVars>>

MoveToTrash ==
    \E path \in TrashSources, rd \in Retentions, flt \in FaultsFor("move_to_trash") :
        MoveCall(path, rd, flt) /\ UNCHANGED tList

RestoreFromTrash ==
    \E k \in 1..MaxIds, flt \in FaultsFor("restore_from_trash") :
        /\ tOp.n < MaxCalls
        /\ LET r == restore_from_trash(fs, env, IdName(k), flt)
               rt == snap.valid /\ snap.id = IdName(k) /\ flt = NoFault
           IN  /\ TrashEffect(r.fs)
               /\ tOp' = [NoOp EXCEPT !.n = tOp.n + 1, !.before = JournalIds, !.pre = fs, !.at = now, !.op = "restore_from_trash", !.res = r.res, !.id = IdName(k),
                                      !.wasDeparted = IdName(k) \in departed,
                                      !.roundTrip = rt]
               /\ snap' = IF rt THEN [snap EXCEPT !.valid = FALSE] ELSE NoSnap
        /\ UNCHANGED <<env, validatorVars, now, nextId, concVars, cOp, tList, cacheVars, scanVars, recoveryVars, monitorVars>>

DeleteFromTrash ==
    \E k \in 1..MaxIds, flt \in FaultsFor("delete_from_trash") :
        /\ tOp.n < MaxCalls
        /\ LET r == delete_from_trash(fs, env, IdName(k), flt)
           IN  /\ TrashEffect(r.fs)
               /\ tOp' = [NoOp EXCEPT !.n = tOp.n + 1, !.before = JournalIds, !.pre = fs, !.at = now, !.op = "delete_from_trash", !.res = r.res, !.id = IdName(k),
                                      !.wasDeparted = IdName(k) \in departed]
        /\ snap' = NoSnap
        /\ UNCHANGED <<env, validatorVars, now, nextId, concVars, cOp, tList, cacheVars, scanVars, recoveryVars, monitorVars>>

EmptyTrash ==
    \E flt \in FaultsFor("empty_trash") :
        /\ tOp.n < MaxCalls
        /\ LET r == empty_trash(fs, env, flt)
           IN  /\ TrashEffect(r.fs)
               /\ tOp' = [NoOp EXCEPT !.n = tOp.n + 1, !.before = JournalIds, !.pre = fs, !.at = now, !.op = "empty_trash", !.res = r.res,
                                      !.count = r.count]
        /\ snap' = NoSnap
        /\ UNCHANGED <<env, validatorVars, now, nextId, concVars, cOp, tList, cacheVars, scanVars, recoveryVars, monitorVars>>

CleanupExpired ==
    \E flt \in FaultsFor("cleanup_expired") :
        /\ tOp.n < MaxCalls
        /\ LET r == cleanup_expired(fs, env, now, flt)
           IN  /\ TrashEffect(r.fs)
               /\ tOp' = [NoOp EXCEPT !.n = tOp.n + 1, !.before = JournalIds, !.pre = fs, !.at = now, !.op = "cleanup_expired", !.res = r.res,
                                      !.count = r.count]
        /\ snap' = NoSnap
        /\ UNCHANGED <<env, validatorVars, now, nextId, concVars, cOp, tList, cacheVars, scanVars, recoveryVars, monitorVars>>

\* a day passes
Tick ==
    /\ now < MaxNow
    /\ now' = now + 1
    /\ snap' = [snap EXCEPT !.valid = FALSE]
    /\ UNCHANGED <<envVars, validatorVars, nextId, tOp, departed, concVars, cOp, tList, cacheVars, scanVars, recoveryVars, monitorVars>>

NextTrash ==
    \/ MoveToTrash
    \/ RestoreFromTrash
    \/ DeleteFromTrash
    \/ EmptyTrash
    \/ CleanupExpired
    \/ Tick

SpecTrash == InitTrash /\ [][NextTrash]_vars


(* ------------------------------------------------------------------ *)
(* SpecTrashOutside: the trash operations, and between two calls       *)
(* another process of the user that puts an object at the original     *)
(* path of a trashed item or takes a trashed object away               *)
(* ------------------------------------------------------------------ *)

\* what the other process creates: an ordinary file, or a symbolic link whose
\* target does not exist
OutsideNodes == {FileNode(User, FALSE, 1, 3), LinkNode(<<"nope">>)}

OutsideEffect(f2) ==
    /\ TrashEffect(f2)
    /\ tOp' = [NoOp EXCEPT !.n = tOp.n + 1, !.op = "outside", !.before = JournalIds,
                           !.pre = fs, !.at = now]
    /\ snap' = NoSnap
    /\ UNCHANGED <<env, validatorVars, now, nextId, concVars, cOp, tList, cacheVars, scanVars, recoveryVars, monitorVars>>

OutsideCreate ==
    \E i \in 1..Len(JournalItems), node \in OutsideNodes :
        LET k == entry_key(fs, JournalItems[i].original_path) IN
        /\ tOp.n < MaxCalls
        /\ k /= NoPath /\ k \notin DOMAIN fs
        /\ OutsideEffect(fs @@ (k :> node))

OutsideRemove ==
    \E i \in 1..Len(JournalItems) :
        /\ tOp.n < MaxCalls
        /\ RemoveOk(fs, JournalItems[i].trash_path)
        /\ OutsideEffect(RemoveFs(fs, JournalItems[i].trash_path))

NextTrashOutside ==
    \/ NextTrash
    \/ OutsideCreate
    \/ OutsideRemove

SpecTrashOutside == InitTrash /\ [][NextTrashOutside]_vars

(* ------------------------------------------------------------------ *)
(* SpecTrashList: move_to_trash with several retentions, of a          *)
(* directory with a subdirectory and of an empty directory among        *)
(* others, and the listing get_trash_items gives afterwards             *)
(* ------------------------------------------------------------------ *)

ListFs ==
       TrashFs
    @@ (Home \o <<"e">> :> DirNode(User))
    @@ (Home \o <<"d", "s">> :> DirNode(User))
    @@ (Home \o <<"d", "s", "g">> :> FileNode(User, FALSE, 4, 1))

ListSources == { Home \o <<"d">>, Home \o <<"e">>, Home \o <<"tl">>, <<"tmp", "x">> }

ListRetentions == {0, 3}

ListFaults == { NoFault, [NoFault EXCEPT !.save = TRUE] }

InitTrashList ==
    /\ fs = ListFs
    /\ env = UserEnv
    /\ ValidatorIdle /\ TrashIdle /\ ConcIdle /\ CmdIdle /\ ListIdle /\ CacheIdle /\ ScanIdle
    /\ RecoveryIdle /\ MonitorIdle

ListMoveToTrash ==
    \E path \in ListSources, rd \in ListRetentions, flt \in ListFaults :
        MoveCall(path, rd, flt) /\ tList' = NoList

\* the command get_trash_items
GetTrashItems ==
    /\ ~tList.listed
    /\ LET r == get_trash_items(fs, env)
       IN  tList' = [listed |-> TRUE, items |-> r.items, total_size |-> r.total_size,
                     total_items |-> r.total_items]
    /\ fs' = get_trash_dir(fs, env)
    /\ UNCHANGED <<env, validatorVars, trashVars, concVars, cOp, cacheVars, scanVars, recoveryVars, monitorVars>>

NextTrashList ==
    \/ ListMoveToTrash
    \/ GetTrashItems
    \/ Tick /\ ~tList.listed

SpecTrashList == InitTrashList /\ [][NextTrashList]_vars
(* ------------------------------------------------------------------ *)
(* SpecTrashJournal: the trash operations, and between two calls the   *)
(* journal file is lost: its content is damaged so that it no longer   *)
(* parses, or the file is taken away                                   *)
(* ------------------------------------------------------------------ *)

\* the journal file with a content serde_json refuses; items keeps what the
\* file held before the damage, which no load reads
Damaged(node) == [node EXCEPT !.journal = [ok |-> FALSE, items |-> node.journal.items]]

JournalDamaged ==
    LET p == canonicalize(fs, get_metadata_path(env)) IN
    /\ tOp.n < MaxCalls
    /\ JournalItems /= <<>>
    /\ OutsideEffect([fs EXCEPT ![p] = Damaged(fs[p])])

JournalRemoved ==
    /\ tOp.n < MaxCalls
    /\ JournalItems /= <<>>
    /\ RemoveOk(fs, get_metadata_path(env))
    /\ OutsideEffect(RemoveFs(fs, get_metadata_path(env)))

NextTrashJournal ==
    \/ NextTrash
    \/ JournalDamaged
    \/ JournalRemoved

SpecTrashJournal == InitTrash /\ [][NextTrashJournal]_vars


(* ------------------------------------------------------------------ *)
(* SpecCache: one CacheManager, its operations called one at a time     *)
(* while the clock advances                                             *)
(* ------------------------------------------------------------------ *)

\* the seconds the clock of Instant::now() runs through
MaxInstant == 3

\* the TTLs handed to with_ttls, in seconds
DirSizeTtls == {0, 1, 2}
ScanResultTtls == {1, 2}
DirKeys == { <<"test", "path">>, <<"test", "expired">> }
ScanKeys == { <<"full">> }
DirSizeValues == {1024, 2048}
ScanCacheEntries ==
    { [total_size |-> 1024, total_items |-> 2, timestamp |-> "t1"],
      [total_size |-> 0, total_items |-> 0, timestamp |-> "t2"] }

InitCache ==
    /\ fs = TrashFs
    /\ env = UserEnv
    /\ ValidatorIdle /\ TrashIdle /\ ConcIdle /\ CmdIdle /\ ListIdle /\ ScanIdle
    /\ RecoveryIdle /\ MonitorIdle
    /\ cache \in { with_ttls(d, s) : d \in DirSizeTtls, s \in ScanResultTtls } \cup { CacheManager_new }
    /\ instant = 0
    /\ kOp = NoCacheOp
    /\ kSets = NoSets

CacheFrame == UNCHANGED <<fs, env, validatorVars, trashVars, concVars, cOp, tList, scanVars, recoveryVars, monitorVars>>

GetDirSize ==
    \E path \in DirKeys :
        /\ kOp' = CacheOp("get_dir_size", path, cache_get_dir_size(cache, path, instant), instant)
        /\ UNCHANGED <<cache, instant, kSets>>
        /\ CacheFrame

SetDirSize ==
    \E path \in DirKeys, size \in DirSizeValues :
        /\ cache' = set_dir_size(cache, path, size, instant)
        /\ kOp' = CacheOp("set_dir_size", path, None, instant)
        /\ kSets' = [kSets EXCEPT !.dir = Insert(@, path, [at |-> instant, value |-> size])]
        /\ UNCHANGED instant
        /\ CacheFrame

GetScanResults ==
    \E key \in ScanKeys :
        /\ kOp' = CacheOp("get_scan_results", key, get_scan_results(cache, key, instant), instant)
        /\ UNCHANGED <<cache, instant, kSets>>
        /\ CacheFrame

SetScanResults ==
    \E key \in ScanKeys, results \in ScanCacheEntries :
        /\ cache' = set_scan_results(cache, key, results, instant)
        /\ kOp' = CacheOp("set_scan_results", key, None, instant)
        /\ kSets' = [kSets EXCEPT !.scan = Insert(@, key, [at |-> instant, value |-> results])]
        /\ UNCHANGED instant
        /\ CacheFrame

CleanupDirSizes ==
    /\ cache' = cleanup_dir_sizes(cache, instant)
    /\ kOp' = CacheOp("cleanup_dir_sizes", <<>>, None, instant)
    /\ UNCHANGED <<instant, kSets>>
    /\ CacheFrame

CleanupScanResults ==
    /\ cache' = cleanup_scan_results(cache, instant)
    /\ kOp' = CacheOp("cleanup_scan_results", <<>>, None, instant)
    /\ UNCHANGED <<instant, kSets>>
    /\ CacheFrame

ClearAll ==
    /\ cache' = clear_all(cache)
    /\ kOp' = CacheOp("clear_all", <<>>, None, instant)
    /\ kSets' = NoSets
    /\ UNCHANGED instant
    /\ CacheFrame

Stats ==
    /\ kOp' = CacheOp("stats", <<>>, Some(stats(cache, instant)), instant)
    /\ UNCHANGED <<cache, instant, kSets>>
    /\ CacheFrame

\* a second passes
Advance ==
    /\ instant < MaxInstant
    /\ instant' = instant + 1
    /\ UNCHANGED <<cache, kOp, kSets>>
    /\ CacheFrame

NextCache ==
    \/ GetDirSize
    \/ SetDirSize
    \/ GetScanResults
    \/ SetScanResults
    \/ CleanupDirSizes
    \/ CleanupScanResults
    \/ ClearAll
    \/ Stats
    \/ Advance

SpecCache == InitCache /\ [][NextCache]_vars

(* ------------------------------------------------------------------ *)
(* SpecScan: one run of scan_system_async, block by block; the phase    *)
(* functions and the memory readings are the environment's choice       *)
(* ------------------------------------------------------------------ *)

\* what there is to find: a cache directory with two children, a package
\* cache, two log files under .local/share, a large file in Downloads and a
\* larger one in Documents
CacheDirs == << ScanItem("c", 5, 2) >>
PackageCaches == << ScanItem("p", 3, 0) >>
LogWalk == << DirEntry, FileEntry(ScanItem("l1", 2, 0)), FileEntry(ScanItem("l2", 1, 0)) >>
LargeFileWalks == << <<DirEntry, FileEntry(ScanItem("b", 7, 0))>>,
                     <<DirEntry, FileEntry(ScanItem("B", 9, 0))>> >>
\* what a phase function returns on a home with these objects and on a home
\* without any, and its failure
PhaseOutcomes(category, limits) ==
    CASE category = "caches" ->
            { scan_caches_async(limits, CacheDirs), scan_caches_async(limits, <<>>),
              PhaseErr(category) }
      [] category = "packages" ->
            { scan_package_caches_async(PackageCaches), scan_package_caches_async(<<>>),
              PhaseErr(category) }
      [] category = "logs" ->
            { scan_logs_async(limits, LogWalk), scan_logs_async(limits, <<>>),
              PhaseErr(category) }
      [] OTHER ->
            { scan_large_files_async(limits, LargeFileWalks),
              scan_large_files_async(limits, <<>>), PhaseErr(category) }
\* max_files of the options
MaxFilesOptions == { None, Some(0), Some(2) }
\* the seconds a phase takes
Durations == {0, 10, 11}
\* max_memory_mb of the options
MemoryOptions == { None, Some(100) }
\* the readings of a memory check: at the limit, above it, and a failed task
MemoryReadings(limits) ==
    { Reading(limits.max_memory_mb), Reading(limits.max_memory_mb + 1), JoinError }

InitScan ==
    /\ fs = TrashFs
    /\ env = UserEnv
    /\ ValidatorIdle /\ TrashIdle /\ ConcIdle /\ CmdIdle /\ ListIdle /\ CacheIdle
    /\ scan = NoScan
    /\ RecoveryIdle /\ MonitorIdle

ScanFrame ==
    UNCHANGED <<fs, env, validatorVars, trashVars, concVars, cOp, tList, cacheVars,
                recoveryVars, monitorVars>>

\* the call: the options are read and the locals initialized
StartScan ==
    \E c \in BOOLEAN, p \in BOOLEAN, l \in BOOLEAN, b \in BOOLEAN, m \in MemoryOptions,
       mf \in MaxFilesOptions, app_handle \in BOOLEAN :
        /\ scan.pc = "idle"
        /\ scan' = [NoScan EXCEPT !.pc = "caches", !.options = ScanOptions(c, p, l, b, mf, m),
                                  !.st = scan_start(ScanOptions(c, p, l, b, mf, m), app_handle)]
        /\ ScanFrame

\* where the run stands after a block left the locals st
After(st, next) == IF st.error /= "" THEN "error" ELSE next
Returned(st) == IF st.error /= "" THEN ReturnErr(st) ELSE NoReturn
\* the record of a memory check made at now_
Check(where, now_, reading) == [where |-> where, at |-> now_, reading |-> reading]

CachesPhase ==
    /\ scan.pc = "caches"
    /\ IF ~scan.options.include_caches
       THEN scan' = [scan EXCEPT !.pc = "packages"]
       ELSE \E outcome \in PhaseOutcomes("caches", ScanLimits(scan.options)), d \in Durations,
               reading \in MemoryReadings(ScanLimits(scan.options)) :
               LET now_ == scan.clock + d
                   st == caches_block(scan.st, ScanLimits(scan.options), outcome, now_, reading)
               IN  scan' = [scan EXCEPT
                       !.pc = After(st, "packages"), !.st = st, !.clock = now_,
                       !.ret = Returned(st),
                       !.attempted = Append(@, "caches"),
                       !.outcomes = Append(@, outcome),
                       !.checks = IF CheckDue(scan.st, now_)
                                  THEN Append(@, Check("caches", now_, reading)) ELSE @]
    /\ ScanFrame

PackagesPhase ==
    /\ scan.pc = "packages"
    /\ IF ~scan.options.include_packages
       THEN scan' = [scan EXCEPT !.pc = "logs"]
       ELSE \E outcome \in PhaseOutcomes("packages", ScanLimits(scan.options)), d \in Durations,
               reading \in MemoryReadings(ScanLimits(scan.options)) :
               LET now_ == scan.clock + d
                   st == packages_block(scan.st, ScanLimits(scan.options), outcome, now_,
                                        reading)
               IN  scan' = [scan EXCEPT
                       !.pc = After(st, "logs"), !.st = st, !.clock = now_,
                       !.ret = Returned(st),
                       !.attempted = Append(@, "packages"),
                       !.outcomes = Append(@, outcome),
                       !.checks = IF CheckDue(scan.st, now_)
                                  THEN Append(@, Check("packages", now_, reading)) ELSE @]
    /\ ScanFrame

LogsPhase ==
    /\ scan.pc = "logs"
    /\ IF ~scan.options.include_logs
       THEN scan' = [scan EXCEPT !.pc = "large_files"]
       ELSE \E outcome \in PhaseOutcomes("logs", ScanLimits(scan.options)), d \in Durations :
               scan' = [scan EXCEPT
                   !.pc = "large_files", !.st = logs_block(scan.st, outcome),
                   !.clock = scan.clock + d,
                   !.attempted = Append(@, "logs"),
                   !.outcomes = Append(@, outcome)]
    /\ ScanFrame

LargeFilesPhase ==
    /\ scan.pc = "large_files"
    /\ IF ~scan.options.include_large_files
       THEN scan' = [scan EXCEPT !.pc = "final"]
       ELSE \E outcome \in PhaseOutcomes("large_files", ScanLimits(scan.options)), d \in Durations,
               reading \in MemoryReadings(ScanLimits(scan.options)) :
               LET checked == large_files_check(scan.st, ScanLimits(scan.options),
                                                scan.clock, reading)
                   checks == IF CheckDue(scan.st, scan.clock)
                             THEN Append(scan.checks, Check("large_files", scan.clock, reading))
                             ELSE scan.checks
               IN  IF checked.error /= ""
                   THEN scan' = [scan EXCEPT !.pc = "error", !.st = checked,
                                             !.ret = ReturnErr(checked), !.checks = checks]
                   ELSE scan' = [scan EXCEPT
                            !.pc = "final", !.st = large_files_block(checked, outcome),
                            !.clock = scan.clock + d,
                            !.attempted = Append(@, "large_files"),
                            !.outcomes = Append(@, outcome),
                            !.checks = checks]
    /\ ScanFrame

FinalCheck ==
    /\ scan.pc = "final"
    /\ \E reading \in MemoryReadings(ScanLimits(scan.options)) :
          LET st == final_check(scan.st, ScanLimits(scan.options), reading)
          IN  scan' = [scan EXCEPT
                  !.pc = After(st, "done"), !.st = st,
                  !.ret = IF st.error /= "" THEN ReturnErr(st) ELSE ReturnOk(st),
                  !.checks = Append(@, Check("final", scan.clock, reading))]
    /\ ScanFrame

NextScan ==
    \/ StartScan
    \/ CachesPhase
    \/ PackagesPhase
    \/ LogsPhase
    \/ LargeFilesPhase
    \/ FinalCheck

SpecScan == InitScan /\ [][NextScan]_vars
(* ------------------------------------------------------------------ *)
(* SpecRecovery: one call of scan_duplicate_files or of the command     *)
(* scan_storage_recovery on a home of up to three files                 *)
(* ------------------------------------------------------------------ *)

\* the sizes of the files: none, at and just above the floor of 1 KiB, one
\* chunk, just above one chunk, just above two chunks, 2 MiB
DupSizes == {0, 1024, 1025, 65536, 65537, 131073, 2097152}
\* the contents of a file of a size: all zero, or a single one at the first
\* byte, at the last, ten before the end, in the middle, just before the
\* middle, or just after the first chunk
Contents(size) ==
    {{}} \cup { {p} : p \in {0, size - 1, size - 10, size \div 2, (size \div 2) - 1,
                            CHUNK_SIZE} \cap 0..(size - 1) }
\* the three files: a in Downloads and older than 90 days, b in Downloads and
\* exactly 90 days old, c elsewhere
FilesOfA ==
    UNION { { WalkFile("a", 2, size, ones, TRUE, TRUE, TRUE, 90 * 24 * 3600 + 1) :
                ones \in Contents(size) } : size \in DupSizes }
FilesOfB(a) ==
    UNION { { WalkFile("b", 1, size, ones, readable, TRUE, TRUE, 90 * 24 * 3600) :
                ones \in Contents(size), readable \in BOOLEAN } : size \in {a.size, 1025} }
FilesOfC(a) ==
    { WalkFile("c", 4, size, {}, TRUE, stat_ok, FALSE, 0) :
        size \in {a.size, 1025}, stat_ok \in BOOLEAN }
DupWalks ==
    UNION { { << a, WalkOther("dir", 3), b, c >> : b \in FilesOfB(a), c \in FilesOfC(a) } :
            a \in FilesOfA }
\* the homes of the command's runs: two old downloads of 2 MiB that are equal
\* or differ, and a file of 1 GiB or of 2 MiB
RecoveryWalks ==
    { << WalkFile("a", 2, 2097152, {}, TRUE, TRUE, TRUE, 90 * 24 * 3600 + 1),
         WalkFile("b", 1, 2097152, ones, TRUE, TRUE, TRUE, 90 * 24 * 3600 + 1),
         WalkFile("c", 4, size, {}, TRUE, TRUE, FALSE, 0) >> :
        ones \in {{}, {0}}, size \in {2097152, 1024 * 1024 * 1024} }
\* what dirs::home_dir() returns
HomeAnswers == {Home, NoHome}
\* how the blocking task of the command ends
TaskEnds == {"done", "panicked", "timeout"}

InitRecovery ==
    /\ fs = TrashFs
    /\ env = UserEnv
    /\ ValidatorIdle /\ TrashIdle /\ ConcIdle /\ CmdIdle /\ ListIdle /\ CacheIdle /\ ScanIdle
    /\ RecoveryIdle /\ MonitorIdle

RecoveryFrame ==
    UNCHANGED <<fs, env, validatorVars, trashVars, concVars, cOp, tList, cacheVars, scanVars,
                monitorVars>>

\* one call of scan_duplicate_files
ScanDuplicateFiles ==
    \E walk \in DupWalks, home \in HomeAnswers :
        /\ dup.op = "none"
        /\ dup' = [NoDup EXCEPT !.op = "scan_duplicate_files", !.walk = walk,
                                !.homes = <<home>>,
                                !.duplicates = scan_duplicate_files(home, walk)]
        /\ RecoveryFrame

\* one call of the command
ScanStorageRecovery ==
    \E walk \in RecoveryWalks, homes \in [1..3 -> HomeAnswers], task \in TaskEnds :
        /\ dup.op = "none"
        /\ dup' = [NoDup EXCEPT !.op = "scan_storage_recovery", !.walk = walk,
                                !.homes = homes, !.task = task,
                                !.ret = scan_storage_recovery_command(task, homes, walk)]
        /\ RecoveryFrame

NextRecovery ==
    \/ ScanDuplicateFiles
    \/ ScanStorageRecovery

SpecRecovery == InitRecovery /\ [][NextRecovery]_vars

(* ------------------------------------------------------------------ *)
(* SpecMonitor: calls of start_diskpulse_monitoring and                 *)
(* stop_diskpulse_monitoring, one after the other as the mutex makes    *)
(* them, with a watcher or a database that may fail                     *)
(* ------------------------------------------------------------------ *)

InitMonitor ==
    /\ fs = TrashFs
    /\ env = UserEnv
    /\ ValidatorIdle /\ TrashIdle /\ ConcIdle /\ CmdIdle /\ ListIdle /\ CacheIdle /\ ScanIdle
    /\ RecoveryIdle /\ MonitorIdle

MonitorFrame ==
    UNCHANGED <<fs, env, validatorVars, trashVars, concVars, cOp, tList, cacheVars, scanVars,
                recoveryVars>>

StartMonitoring ==
    \E watcher_fails \in BOOLEAN, db_fails \in BOOLEAN :
        /\ mon.n < MaxMonitorCalls
        /\ mon' = [start_diskpulse_monitoring(mon, watcher_fails, db_fails) EXCEPT
                      !.n = mon.n + 1, !.op = "start_diskpulse_monitoring",
                      !.watcher_fails = watcher_fails, !.db_fails = db_fails]
        /\ MonitorFrame

StopMonitoring ==
    \E db_fails \in BOOLEAN :
        /\ mon.n < MaxMonitorCalls
        /\ mon' = [stop_diskpulse_monitoring(mon, db_fails) EXCEPT
                      !.n = mon.n + 1, !.op = "stop_diskpulse_monitoring",
                      !.watcher_fails = FALSE, !.db_fails = db_fails]
        /\ MonitorFrame

NextMonitor ==
    \/ StartMonitoring
    \/ StopMonitoring

SpecMonitor == InitMonitor /\ [][NextMonitor]_vars

(* ------------------------------------------------------------------ *)
(* SpecTrashConc: trash operations called while another is running, as  *)
(* the async commands of commands/mod.rs allow; each call takes its     *)
(* steps (the load of the journal, the work on the files, the save of   *)
(* the journal) one at a time, and nothing in trash/mod.rs makes a call *)
(* wait for another                                                    *)
(* ------------------------------------------------------------------ *)

InitTrashConc ==
    /\ fs = TrashFs
    /\ env = UserEnv
    /\ ValidatorIdle /\ TrashIdle /\ ConcIdle /\ CmdIdle /\ ListIdle /\ CacheIdle /\ ScanIdle
    /\ RecoveryIdle /\ MonitorIdle

TrashOps ==
    {"move_to_trash", "restore_from_trash", "delete_from_trash", "empty_trash",
     "cleanup_expired"}

CallsBegun == tOp.n

\* a command is invoked: move_to_trash starts with the work on the files, the
\* other operations with the load of the journal
ConcCall(p) ==
    \E op \in TrashOps, k \in 1..MaxIds, path \in TrashSources :
        /\ procs[p].pc = "idle"
        /\ CallsBegun < MaxCalls
        /\ op = "move_to_trash" => nextId <= MaxIds /\ k = 1
        /\ op /= "move_to_trash" => path = Home \o <<"d">>
        /\ op \in {"empty_trash", "cleanup_expired"} => k = 1
        /\ procs' = [procs EXCEPT ![p] =
                        [IdleProc EXCEPT !.pc = IF op = "move_to_trash" THEN "act" ELSE "load",
                                         !.op = op,
                                         !.id = IF op \in {"restore_from_trash", "delete_from_trash"}
                                                THEN IdName(k) ELSE NoId,
                                         !.item = IF op = "move_to_trash"
                                                  THEN [NoItem EXCEPT !.original_path = path]
                                                  ELSE NoItem]]
        /\ tOp' = [tOp EXCEPT !.n = @ + 1]
        /\ UNCHANGED <<envVars, validatorVars, nextId, now, departed, snap, written, removed,
                       cOp, tList, cacheVars, scanVars, recoveryVars, monitorVars>>

\* let mut items = load_trash_metadata()
ConcLoad(p) ==
    /\ procs[p].pc = "load"
    /\ fs' = get_trash_dir(fs, env)
    /\ procs' = [procs EXCEPT ![p].loaded = load_trash_metadata(get_trash_dir(fs, env), env),
                              ![p].pc = IF procs[p].op = "move_to_trash" THEN "save" ELSE "act",
                              ![p].items = IF procs[p].op = "move_to_trash"
                                           THEN Append(load_trash_metadata(
                                                           get_trash_dir(fs, env), env),
                                                       procs[p].item)
                                           ELSE <<>>]
    /\ UNCHANGED <<env, validatorVars, trashVars, written, removed, cOp, tList, cacheVars, scanVars, recoveryVars, monitorVars>>

\* the work of the call on the files, between its load and its save
ConcPart(pr) ==
    CASE pr.op = "restore_from_trash" -> RestoreFsPart(fs, env, pr.loaded, pr.id, NoFault)
      [] pr.op = "delete_from_trash" -> DeleteFsPart(fs, env, pr.loaded, pr.id, NoFault)
      [] pr.op = "empty_trash" -> EmptyFsPart(fs, env, pr.loaded, NoFault)
      [] pr.op = "cleanup_expired" -> CleanupFsPart(fs, env, pr.loaded, now, NoFault)

ConcAct(p) ==
    /\ procs[p].pc = "act"
    /\ IF procs[p].op = "move_to_trash"
       THEN \E rd \in Retentions :
              LET m == MoveFsPart(fs, env, procs[p].item.original_path, IdName(nextId), now,
                                  rd, "Cleanup", NoFault)
              IN  /\ fs' = m.fs
                  /\ nextId' = IF m.res = "Ok" THEN nextId + 1 ELSE nextId
                  /\ procs' = [procs EXCEPT ![p] =
                                  IF m.res = "Ok"
                                  THEN [procs[p] EXCEPT !.pc = "load", !.item = m.item,
                                                        !.id = m.item.id]
                                  ELSE IdleProc]
       ELSE LET part == ConcPart(procs[p])
            IN  /\ fs' = part.fs
                /\ nextId' = nextId
                /\ procs' = [procs EXCEPT ![p] =
                                IF part.save = "none" THEN IdleProc
                                ELSE [procs[p] EXCEPT !.pc = "save", !.items = part.items]]
    /\ UNCHANGED <<env, validatorVars, now, tOp, departed, snap, written, removed, cOp, tList, cacheVars, scanVars, recoveryVars, monitorVars>>

\* save_trash_metadata(&items): the journal becomes what this call computed
\* from what it loaded
ConcSave(p) ==
    /\ procs[p].pc = "save"
    /\ fs' = save_trash_metadata(fs, env, procs[p].items, FALSE).fs
    /\ written' = written \cup (ItemIds(procs[p].items) \ ItemIds(procs[p].loaded))
    /\ removed' = removed \cup (ItemIds(procs[p].loaded) \ ItemIds(procs[p].items))
    /\ procs' = [procs EXCEPT ![p] = IdleProc]
    /\ UNCHANGED <<env, validatorVars, trashVars, cOp, tList, cacheVars, scanVars, recoveryVars, monitorVars>>

NextTrashConc ==
    \E p \in Procs : ConcCall(p) \/ ConcLoad(p) \/ ConcAct(p) \/ ConcSave(p)

SpecTrashConc == InitTrashConc /\ [][NextTrashConc]_vars

(* ------------------------------------------------------------------ *)
(* SpecClean: the cleanup and toggle commands, one call after another   *)
(* ------------------------------------------------------------------ *)

\* a home directory with files, caches, logs and startup entries, some of them
\* links that lead out of it
CleanFs ==
    Initialized(
          (<<>> :> DirNode(Root))
       @@ (<<"etc">> :> DirNode(Root))
       @@ (<<"etc", "passwd">> :> FileNode(Root, FALSE, 2, 1))
       @@ (<<"var">> :> DirNode(Root))
       @@ (<<"var", "log">> :> DirNode(User))
       @@ (<<"home">> :> DirNode(Root))
       @@ (Home :> DirNode(User))
       @@ (Home \o <<"a">> :> FileNode(User, FALSE, 2, 1))
       @@ (Home \o <<"d">> :> DirNode(User))
       @@ (Home \o <<"d", "f">> :> FileNode(User, FALSE, 3, 2))
       @@ (Home \o <<"lnk">> :> LinkNode(<<"etc", "passwd">>))
       @@ (Home \o <<"dotcache">> :> DirNode(User))
       @@ (Home \o <<"dotcache", "pip">> :> DirNode(User))
       @@ (Home \o <<"dotcache", "pip", "x">> :> FileNode(User, FALSE, 1, 1))
       @@ (Home \o <<"dotcache", "xpip">> :> LinkNode(<<"etc", "passwd">>))
       @@ (Home \o <<"dotcache", "misc">> :> DirNode(User))
       @@ (Home \o <<"dotcache", "logs">> :> DirNode(User))
       @@ (Home \o <<"dotlocal">> :> DirNode(User))
       @@ (Home \o <<"dotlocal", "share">> :> DirNode(User))
       @@ (Home \o <<"dotlocal", "share", "logs">> :> LinkNode(<<"var", "log">>))
       @@ (Home \o <<"dotconfig">> :> DirNode(User))
       @@ (Home \o <<"dotconfig", "autostart">> :> DirNode(User))
       @@ (Home \o <<"dotconfig", "autostart", "appdesktop">> :> FileNode(User, FALSE, 1, Shown))
       @@ (Home \o <<"dotconfig", "autostart", "lnkdesktop">> :> LinkNode(<<"etc", "passwd">>))
       @@ (Home \o <<"dotconfig", "systemd">> :> DirNode(User))
       @@ (Home \o <<"dotconfig", "systemd", "user">> :> DirNode(User))
       @@ (Home \o <<"dotconfig", "systemd", "user", "svcservice">> :> FileNode(User, FALSE, 1, 1)),
       UserEnv)

\* the path strings a caller hands to clean_items and the file_access table
\* holds: a system file, objects of the home directory, a link out of it, a
\* traversal string
CleanInputs ==
    { ToStr(<<"etc", "passwd">>), ToStr(Home \o <<"a">>), ToStr(Home \o <<"d">>),
      ToStr(Home \o <<"lnk">>), ToStr(Home \o <<"d", "dotdot", "a">>) }

\* the batches: at most two paths, no path twice
CleanBatches ==
    {<<>>} \cup { <<p>> : p \in CleanInputs }
           \cup { b \in { <<p, q>> : p \in CleanInputs, q \in CleanInputs } : b[1] /= b[2] }

\* item_ids of the call: as many as the paths, or one fewer
ScanIds(k) == [i \in 1..k |-> <<"s">> \o Decimal(i)]

OldFileLists ==
    { <<>>, << ToStr(Home \o <<"a">>) >>,
      << ToStr(<<"etc", "passwd">>), ToStr(Home \o <<"d">>) >>,
      << ToStr(Home \o <<"gone">>), ToStr(Home \o <<"lnk">>) >> }

ProgramIds ==
    { xdg_prefix \o N.app, xdg_prefix \o N.lnk, systemd_prefix \o <<"s", "v", "c">>,
      xdg_prefix \o N.nope }

\* the I/O failures of a command: none, or one kind throughout the call
CmdFaults(use_trash) ==
    IF use_trash
    THEN {NoFault, [NoFault EXCEPT !.rename = TRUE], [NoFault EXCEPT !.save = TRUE]}
    ELSE {NoFault, [NoFault EXCEPT !.unlink = TRUE]}

InitClean ==
    /\ fs = CleanFs
    /\ env = UserEnv
    /\ ValidatorIdle /\ TrashIdle /\ ConcIdle /\ CmdIdle /\ ListIdle /\ CacheIdle /\ ScanIdle
    /\ RecoveryIdle /\ MonitorIdle

\* what a command leaves behind; secs are the seconds its items took
CmdEffectTimed(op, r, item_ids, item_paths, use_trash, flt, secs) ==
    /\ fs' = r.st.fs
    /\ nextId' = r.st.nextId
    /\ cOp' = [n |-> cOp.n + 1, op |-> op, res |-> r.res, item_ids |-> item_ids,
               item_paths |-> item_paths, use_trash |-> use_trash, fault |-> flt,
               cleaned |-> r.st.cleaned, failed |-> r.st.failed,
               total_size |-> r.st.total_size, log |-> r.st.log, pre |-> fs, secs |-> secs]
    /\ UNCHANGED <<env, validatorVars, now, tOp, departed, snap, concVars, tList, cacheVars, scanVars, recoveryVars, monitorVars>>
CmdEffect(op, r, item_ids, item_paths, use_trash, flt) ==
    CmdEffectTimed(op, r, item_ids, item_paths, use_trash, flt, <<>>)

\* the seconds an item of a batch takes: one, or more than cleanup_timeout
ItemSeconds == {1, 301}

CleanItems ==
    \E item_paths \in CleanBatches, use_trash \in BOOLEAN, surplus \in {-1, 0, 1} :
      \E flt \in CmdFaults(use_trash), rd \in Retentions :
        /\ cOp.n < MaxCmds
        /\ surplus /= 0 => Len(item_paths) = 2
        /\ LET item_ids == ScanIds(Len(item_paths) - surplus)
           IN  \E secs \in [1..Min(Len(item_ids), Len(item_paths)) -> ItemSeconds] :
                   CmdEffectTimed("clean_items",
                                  clean_items(fs, env, nextId, item_ids, item_paths,
                                              use_trash, rd, now, flt),
                                  item_ids, item_paths, use_trash, flt, secs)

ClearCache ==
    \E flt \in CmdFaults(TRUE) :
        /\ cOp.n < MaxCmds
        /\ CmdEffect("clear_cache", clear_cache(fs, env, nextId, now, flt), <<>>, <<>>, TRUE,
                     flt)

CleanPackages ==
    \E flt \in CmdFaults(TRUE), apt_clean_ok \in BOOLEAN, apt_autoremove_ok \in BOOLEAN :
        /\ cOp.n < MaxCmds
        /\ CmdEffect("clean_packages",
                     clean_packages(fs, env, nextId, now, flt, apt_clean_ok,
                                    apt_autoremove_ok, apt_autoremove_ok),
                     <<>>, <<>>, TRUE, flt)

ClearLogs ==
    \E flt \in CmdFaults(TRUE) :
        /\ cOp.n < MaxCmds
        /\ CmdEffect("clear_logs", clear_logs(fs, env, nextId, now, flt), <<>>, <<>>, TRUE,
                     flt)

CleanupOldFiles ==
    \E old_files \in OldFileLists, flt \in CmdFaults(TRUE) :
        /\ cOp.n < MaxCmds
        /\ CmdEffect("cleanup_old_files",
                     cleanup_old_files(fs, env, nextId, old_files, now, flt),
                     <<>>, old_files, TRUE, flt)

ToggleStartupProgram ==
    \E id \in ProgramIds, enabled \in BOOLEAN, systemctl_ok \in BOOLEAN :
      \E flt \in {NoFault, [NoFault EXCEPT !.save = TRUE]} :
        /\ cOp.n < MaxCmds
        /\ CmdEffect("toggle_startup_program",
                     toggle_startup_program(fs, env, nextId, id, enabled, systemctl_ok, flt),
                     <<id>>, <<>>, FALSE, flt)

NextClean ==
    \/ CleanItems
    \/ ClearCache
    \/ CleanPackages
    \/ ClearLogs
    \/ CleanupOldFiles
    \/ ToggleStartupProgram

SpecClean == InitClean /\ [][NextClean]_vars

(* ================================================================== *)
(* Claims                                                              *)
(* ================================================================== *)

\* the events of the last command that touch the file system
Mutations == {j \in 1..Len(cOp.log) : cOp.log[j].ev \in {"move_to_trash", "remove", "rewrite"}}
\* the paths of the file system the last command removed, moved or rewrote,
\* the journal file and what it made under the trash root aside
Touched ==
    { p \in DOMAIN cOp.pre : p \notin DOMAIN fs \/ fs[p] /= cOp.pre[p] }
        \ {get_metadata_path(env)}
\* what a validated path string stands for: the entry it names, all below it,
\* and the object it resolves to
Covered(path) ==
    { p \in DOMAIN cOp.pre :
        \/ IsPrefixSeq(entry_key(cOp.pre, PathOf(path)), p)
        \/ p = canonicalize(cOp.pre, PathOf(path)) }

\* C1: in every cleanup or toggle command, a trash move, a permanent delete or
\* a file rewrite happens to a path only after validate_path_comprehensive
\* returned success for that path in the same call, with use_trash true and false
C1_ValidatedBeforeMutation ==
    /\ \A j \in Mutations :
          \E i \in 1..(j - 1) :
              /\ cOp.log[i].ev = "validate"
              /\ cOp.log[i].path = cOp.log[j].path
              /\ cOp.log[i].ok
    /\ \A p \in Touched :
          \E i \in 1..Len(cOp.log) :
              cOp.log[i].ev = "validate" /\ cOp.log[i].ok /\ p \in Covered(cOp.log[i].path)

\* a batch with a system file and a file of the home directory, deleted for
\* good: the system file is still there, the other is gone
C1_Witness ==
    /\ cOp.op = "clean_items" /\ ~cOp.use_trash
    /\ cOp.item_paths = << ToStr(<<"etc", "passwd">>), ToStr(Home \o <<"a">>) >>
    /\ <<"etc", "passwd">> \in DOMAIN fs
    /\ Home \o <<"a">> \notin DOMAIN fs
    /\ Len(cOp.log) = 3

Count(S) == Cardinality(S)
\* C8: a clean_items batch returns Ok; every pair of the batch is processed and
\* counted once, in failed when its validation or its deletion fails, in
\* cleaned when it was moved or deleted, and a cleaned path is gone; a system
\* file with a valid file of the home directory gives cleaned = 1, failed = 1
C8_BatchCounts ==
    cOp.op = "clean_items" =>
        /\ cOp.res = "Ok"
        /\ cOp.cleaned = Count({j \in Mutations : cOp.log[j].ok})
        /\ cOp.failed = Count({j \in 1..Len(cOp.log) : ~cOp.log[j].ok})
        /\ cOp.cleaned + cOp.failed = Min(Len(cOp.item_ids), Len(cOp.item_paths))
        /\ \A i \in 1..Min(Len(cOp.item_ids), Len(cOp.item_paths)) :
              \E j \in 1..Len(cOp.log) :
                  cOp.log[j].ev = "validate" /\ cOp.log[j].path = cOp.item_paths[i]
        /\ \A j \in Mutations :
              cOp.log[j].ok => entry_key(fs, PathOf(cOp.log[j].path)) \notin DOMAIN fs
        /\ ( /\ cOp.item_paths = << ToStr(<<"etc", "passwd">>), ToStr(Home \o <<"a">>) >>
             /\ Len(cOp.item_ids) = 2
             /\ cOp.fault = NoFault
             /\ Home \o <<"a">> \in DOMAIN cOp.pre )
           => (cOp.cleaned = 1 /\ cOp.failed = 1)

\* the scenario, with the trash: the file of the home directory is in the trash
C8_Witness ==
    /\ cOp.op = "clean_items" /\ cOp.use_trash /\ cOp.fault = NoFault
    /\ cOp.item_paths = << ToStr(<<"etc", "passwd">>), ToStr(Home \o <<"a">>) >>
    /\ Len(cOp.item_ids) = 2
    /\ cOp.cleaned = 1 /\ cOp.failed = 1 /\ cOp.total_size = 2
    /\ Len(JournalItems) = 1

\* the objects that lie directly under the trash root, the journal file aside
TrashObjects ==
    IF ~is_dir(fs, TrashDirOf(env.home)) THEN {}
    ELSE { Append(TrashDirOf(env.home), Last(p)) :
             p \in Children(fs, canonicalize(fs, TrashDirOf(env.home))) }
         \ {get_metadata_path(env)}

\* C2: every object under the trash root has exactly one journal entry, and
\* every journal entry exactly one object under the trash root, in every state
\* the trash operations reach, I/O failures included
C2_TrashInvariant ==
    /\ \A p \in TrashObjects :
          Cardinality({i \in 1..Len(JournalItems) : JournalItems[i].trash_path = p}) = 1
    /\ \A i \in 1..Len(JournalItems) : JournalItems[i].trash_path \in TrashObjects

\* C3: the load-mutate-persist steps of concurrent trash operations do not
\* interleave: the journal holds exactly the entries that the saves of the
\* calls added and that no save of a call took out, none lost, none resurrected
C3_NoLostUpdate == JournalIds = written \ removed

\* what the call of the validator under check resolves its path to
vCanon == canonicalize(fs, PathOf(vPath))
\* layers 1 to 3 passed
vResolved ==
    /\ validate_path_traversal(vPath) = ValidOk
    /\ is_absolute(vPath)
    /\ vCanon /= NoPath

RECURSIVE PercentDecode(_)
\* the string with %2e, %2f and %5c (either case) decoded
PercentDecode(s) ==
    IF Len(s) < 3 THEN s
    ELSE IF s[1] = "%" /\ s[2] = "2" /\ s[3] \in {"e", "E"}
    THEN <<".">> \o PercentDecode(SubSeq(s, 4, Len(s)))
    ELSE IF s[1] = "%" /\ s[2] = "2" /\ s[3] \in {"f", "F"}
    THEN <<"/">> \o PercentDecode(SubSeq(s, 4, Len(s)))
    ELSE IF s[1] = "%" /\ s[2] = "5" /\ s[3] \in {"c", "C"}
    THEN <<"\\">> \o PercentDecode(SubSeq(s, 4, Len(s)))
    ELSE <<s[1]>> \o PercentDecode(SubSeq(s, 2, Len(s)))

\* C4: every path string that contains "..", literally or percent-encoded, is
\* rejected with PathTraversal, whatever the context
C4_TraversalRejected ==
    (vResult /= Pending /\ Contains(PercentDecode(vPath), <<".", ".">>))
        => vResult.kind = "PathTraversal"

C5_NamedForbidden ==
    { <<"etc">>, <<"bin">>, <<"boot">>, <<"proc">>, <<"sys">>, <<"usr", "bin">>, <<"root">> }
C5_DeletionForbidden == { <<"usr">>, <<"opt">>, <<"var">> }
\* C5: in every context a canonical path under an always-forbidden prefix is
\* rejected with SystemCriticalPath; under Deletion so is one under /usr, /opt
\* or /var
C5_SystemCriticalRejected ==
    (vResult /= Pending /\ vResolved) =>
        /\ (\E b \in C5_NamedForbidden : PathStartsWith(vCanon, b))
              => vResult.kind = "SystemCriticalPath"
        /\ (vCtx = "Deletion" /\ \E b \in C5_DeletionForbidden : PathStartsWith(vCanon, b))
              => vResult.kind = "SystemCriticalPath"
\* a symbolic link in the home directory to /etc/passwd, in the log context
C5_Witness ==
    /\ vPath = ToStr(Home \o <<"lnk">>)
    /\ vCanon = <<"etc", "passwd">>
    /\ vCtx = "LogCleanup"
    /\ vResult.kind = "SystemCriticalPath"

\* the error of the first of the seven checks that fails, taken in the order
\* traversal, absolute, canonicalization, system-critical, boundary,
\* permission, existence
C6_FirstFailure ==
    IF validate_path_traversal(vPath) /= ValidOk THEN validate_path_traversal(vPath)
    ELSE IF ~is_absolute(vPath) THEN SecErr("NonAbsolutePath", vPath)
    ELSE IF vCanon = NoPath THEN SecErr("SecurityViolation", <<>>)
    ELSE IF validate_system_critical_paths(vCanon, vCtx) /= ValidOk
    THEN validate_system_critical_paths(vCanon, vCtx)
    ELSE IF validate_filesystem_boundaries(env.home, vCanon) /= ValidOk
    THEN validate_filesystem_boundaries(env.home, vCanon)
    ELSE IF validate_permissions(fs, env.uid, vCanon) /= ValidOk
    THEN validate_permissions(fs, env.uid, vCanon)
    ELSE IF ~exists(fs, vCanon) THEN SecErr("PathDoesNotExist", vPath)
    ELSE ValidOk
\* C6: the seven checks run in the fixed order; the call returns the error of
\* the first check that fails, and success only if none fails
C6_FixedOrder == vResult /= Pending => vResult = C6_FirstFailure
\* a path that fails both the system-critical and the boundary check
C6_Witness ==
    /\ vPath = ToStr(<<"etc", "passwd">>)
    /\ env.home = Home
    /\ validate_filesystem_boundaries(env.home, vCanon) /= ValidOk
    /\ vResult.kind = "SystemCriticalPath"

C7_InBounds(p) ==
    \/ (env.home /= NoHome /\ PathStartsWith(p, env.home))
    \/ PathStartsWith(p, <<"var", "cache">>)
    \/ PathStartsWith(p, <<"tmp">>)
\* C7: a call that returns success has a canonical path under the home
\* directory, /var/cache or /tmp; any other canonical path is outside
\* boundaries for the boundary check and the call rejects it, with that
\* check's error unless the system-critical check, which runs first, has
\* rejected it already
C7_Boundaries ==
    /\ vResult = ValidOk => (vCanon /= NoPath /\ env.home /= NoHome /\ C7_InBounds(vCanon))
    /\ (vResult /= Pending /\ vResolved /\ env.home /= NoHome /\ ~C7_InBounds(vCanon))
          => /\ validate_filesystem_boundaries(env.home, vCanon)
                   = SecErr("OutsideBoundaries", ToStr(vCanon))
             /\ vResult.kind \in {"SystemCriticalPath", "OutsideBoundaries"}
             /\ validate_system_critical_paths(vCanon, vCtx) = ValidOk
                   => vResult = SecErr("OutsideBoundaries", ToStr(vCanon))
\* accepted: a link in the home directory that resolves into /tmp
C7_Witness ==
    /\ vPath = ToStr(Home \o <<"tl">>)
    /\ vCanon = <<"tmp", "x">>
    /\ vResult = ValidOk

\* C9: move_to_trash followed at once by restore_from_trash of the item it
\* returned, no I/O failing, succeeds and leaves the state as it was before the
\* move: the object with its content back at its path, nothing under the trash
\* root for the id, the journal without the entry
C9_RoundTrip ==
    (tOp.op = "restore_from_trash" /\ tOp.roundTrip) => (tOp.res = "Ok" /\ fs = snap.fs)

\* C10: an identifier enters the journal only by the move_to_trash that drew
\* it, leaves it only by restore_from_trash, delete_from_trash, empty_trash or
\* cleanup_expired, and once it has left, no restore or delete of it succeeds
\* and nothing puts it back in the journal
C10_Lifecycle ==
    /\ departed \cap JournalIds = {}
    /\ tOp.wasDeparted => tOp.res /= "Ok"
    /\ (JournalIds \ tOp.before) /= {} =>
          /\ tOp.op = "move_to_trash" /\ tOp.res = "Ok"
          /\ (JournalIds \ tOp.before) = {tOp.id}
          /\ tOp.id \notin departed
    /\ (tOp.before \ JournalIds) /= {} =>
          /\ tOp.op \in {"restore_from_trash", "delete_from_trash", "empty_trash",
                         "cleanup_expired"}
          /\ (tOp.before \ JournalIds) \subseteq departed
    /\ (tOp.op \in {"restore_from_trash", "delete_from_trash"} /\ tOp.res = "Ok") =>
          (tOp.id \in tOp.before /\ tOp.id \notin JournalIds)


(* ------------------------------------------------------------------ *)
(* The contracts of the trash operations                               *)
(* ------------------------------------------------------------------ *)

\* the journal the last call loaded, and in it the entry the call named
PreItems == load_trash_metadata(tOp.pre, env)
PreItem == PreItems[Position(PreItems, tOp.id)]
\* the last call named an entry of the journal
NamedEntry == tOp.op \in {"restore_from_trash", "delete_from_trash"} /\ tOp.id \in tOp.before

\* the directory entry of a path holds an object, be it a file, a directory or
\* a symbolic link, whatever the link leads to
Occupied(f, path) == entry_key(f, path) /= NoPath /\ entry_key(f, path) \in DOMAIN f

\* the object at the path and everything below it is in g what it was in f
SameObject(f, g, path) ==
    LET k == entry_key(f, path) IN
    /\ entry_key(g, path) = k
    /\ \A p \in DOMAIN f : IsPrefixSeq(k, p) => p \in DOMAIN g /\ g[p] = f[p]
    /\ \A p \in DOMAIN g : IsPrefixSeq(k, p) => p \in DOMAIN f

\* C11: restore_from_trash never overwrites: when the entry's trashed object is
\* in the trash root and any object occupies the entry's original path, the call
\* returns an error, the occupant and the trashed object stay as they were and
\* the entry stays in the journal
C11_NeverOverwrites ==
    (/\ tOp.op = "restore_from_trash"
     /\ NamedEntry
     /\ Occupied(tOp.pre, PreItem.trash_path)
     /\ Occupied(tOp.pre, PreItem.original_path))
        => /\ tOp.res /= "Ok"
           /\ SameObject(tOp.pre, fs, PreItem.original_path)
           /\ SameObject(tOp.pre, fs, PreItem.trash_path)
           /\ tOp.id \in JournalIds

\* the identifier the last move_to_trash drew
DrawnId == IF IdSpent(tOp.res) THEN IdName(nextId - 1) ELSE IdName(nextId)

\* the object that was at path in f, with all below it, is in g at the path to
RenamedTo(f, g, path, to) ==
    LET sk == entry_key(f, path)
        tk == entry_key(g, to)
    IN  /\ sk /= NoPath /\ sk \in DOMAIN f
        /\ tk /= NoPath
        /\ \A p \in DOMAIN f :
              IsPrefixSeq(sk, p) =>
                 LET q == tk \o SubSeq(p, Len(sk) + 1, Len(p))
                 IN  q \in DOMAIN g /\ g[q] = f[p]
        \* the source has left its path, or it was the journal file, which the
        \* save then wrote anew
        /\ sk \notin DOMAIN g \/ sk = entry_key(f, get_metadata_path(env))

\* the last move_to_trash renamed its source into the trash root
Moved == RenamedTo(tOp.pre, fs, tOp.path, Append(TrashDir, DrawnId))

\* the journal ends with the entry of the last move_to_trash
Persisted ==
    /\ JournalItems /= <<>>
    /\ Last(JournalItems).id = DrawnId
    /\ Last(JournalItems).original_path = tOp.path
    /\ Last(JournalItems).trash_path = Append(TrashDir, DrawnId)

\* C12: move_to_trash returns Ok only if the source was renamed into the trash
\* root and the new entry was written to the journal; when the rename fails it
\* returns an error and leaves the source and the journal as they were; when the
\* journal cannot be written after the rename it returns an error
C12_MoveResult ==
    tOp.op = "move_to_trash" =>
        /\ tOp.res \in {"Ok", "PathDoesNotExist", "RenameFailed", "SaveFailed"}
        /\ tOp.res = "Ok" => Moved /\ Persisted /\ tOp.id = DrawnId
        /\ tOp.res = "RenameFailed" =>
              /\ SameObject(tOp.pre, fs, tOp.path)
              /\ JournalItems = PreItems
              /\ fs = tOp.pre
        /\ tOp.res = "SaveFailed" => Moved /\ ~Persisted
        /\ (exists(tOp.pre, tOp.path) /\ ~Moved) => tOp.res = "RenameFailed"
        /\ (Moved /\ ~Persisted) => tOp.res = "SaveFailed"

C12_Witness ==
    /\ tOp.op = "move_to_trash"
    /\ tOp.res = "SaveFailed"
    /\ Moved
    /\ DrawnId \notin JournalIds

\* nothing was done at the path: the object there is what it was, or there is
\* still none
Untouched(f, g, path) ==
    IF Occupied(f, path) THEN SameObject(f, g, path) ELSE ~Occupied(g, path)

\* C13: restore_from_trash on a journal entry whose trashed object is no longer
\* on disk returns the "no longer exists" error, removes the entry from the
\* journal on disk and does not touch the original path
C13_StaleEntryDropped ==
    (/\ tOp.op = "restore_from_trash"
     /\ NamedEntry
     /\ ~Occupied(tOp.pre, PreItem.trash_path))
        => /\ tOp.res = "NoLongerExists"
           /\ tOp.id \notin JournalIds
           /\ Untouched(tOp.pre, fs, PreItem.original_path)

\* the last call found the trashed object of the entry (trash_path.exists()) and
\* the object is still there: its removal failed
StillInTrash(item) ==
    /\ exists(tOp.pre, item.trash_path)
    /\ SameObject(tOp.pre, fs, item.trash_path)

\* C14: when delete_from_trash or empty_trash cannot remove a trashed object
\* from disk, the journal is cleaned all the same: delete_from_trash removes the
\* entry it was called for, empty_trash removes every entry
C14_RemovalFailureIgnored ==
    /\ (tOp.op = "delete_from_trash" /\ NamedEntry /\ StillInTrash(PreItem))
          => tOp.id \notin JournalIds
    /\ (/\ tOp.op = "empty_trash"
        /\ \E i \in 1..Len(PreItems) : StillInTrash(PreItems[i]))
          => JournalItems = <<>>

\* the expiry of the entry is a date that has passed at the instant t
HasPassed(item, t) ==
    parse_date(item.expires_at) /= NoDate /\ parse_date(item.expires_at) <= t

\* C15: a cleanup_expired that returns Ok(n) has removed from the journal
\* exactly the entries whose expires_at had passed, kept the others in their
\* order, and n is the number removed; one that fails to write the journal
\* leaves it as it was; a second call right after it, at the same instant,
\* removes nothing, returns Ok(0) unless its write fails, and leaves the
\* journal unchanged
C15_CleanupExpired ==
    tOp.op = "cleanup_expired" =>
        /\ tOp.res \in {"Ok", "SaveFailed"}
        /\ tOp.res = "Ok" =>
              /\ JournalItems = SelectSeq(PreItems, LAMBDA it : ~HasPassed(it, tOp.at))
              /\ tOp.count = Len(SelectSeq(PreItems, LAMBDA it : HasPassed(it, tOp.at)))
        /\ tOp.res = "SaveFailed" => JournalItems = PreItems
        /\ (tOp.res = "Ok" /\ now = tOp.at) =>
              \A flt \in FaultsFor("cleanup_expired") :
                  LET again == cleanup_expired(fs, env, now, flt)
                  IN  /\ again.count = 0
                      /\ again.res = IF flt.save THEN "SaveFailed" ELSE "Ok"
                      /\ load_trash_metadata(again.fs, env) = JournalItems

\* a sweep that removed an entry and kept another
C15_Witness ==
    /\ tOp.op = "cleanup_expired"
    /\ tOp.res = "Ok"
    /\ tOp.count = 1
    /\ Len(JournalItems) = 1
    /\ now = tOp.at

\* the regular files that lie below the object a path names, the object
\* itself when it is a regular file
FilesBelow(f, path) ==
    { p \in DOMAIN f : IsPrefixSeq(canonicalize(f, path), p) /\ f[p].kind = "file" }
RECURSIVE ByteSum(_, _)
ByteSum(f, paths) ==
    IF paths = {} THEN 0
    ELSE LET p == CHOOSE y \in paths : TRUE IN f[p].size + ByteSum(f, paths \ {p})
\* a listing taken after a move that succeeded, nothing having happened between
ListedAfterMove == tList.listed /\ tOp.op = "move_to_trash" /\ tOp.res = "Ok"
NewEntries == { i \in 1..Len(tList.items) : tList.items[i].id \notin tOp.before }
RECURSIVE SizesUpTo(_, _)
SizesUpTo(items, n) == IF n = 0 THEN 0 ELSE items[n].size + SizesUpTo(items, n - 1)

\* C16: after move_to_trash(path, retention_days, meta) succeeds,
\* get_trash_items lists exactly one new entry, for that path and under the
\* identifier the call returned; its expires_at is its deleted_at plus
\* retention_days days, its size is the sum of the lengths of the regular
\* files of the source as it was before the call (0 for an empty directory),
\* and total_size and total_items of the listing are the sum of the sizes and
\* the number of the journal's entries.
C16_ListedAfterMove ==
    ListedAfterMove =>
        /\ Cardinality(NewEntries) = 1
        /\ \A i \in NewEntries :
              LET it == tList.items[i] IN
              /\ it.id = tOp.id
              /\ it.original_path = tOp.path
              /\ parse_date(it.deleted_at) = tOp.at
              /\ parse_date(it.expires_at) = parse_date(it.deleted_at) + tOp.retention
              /\ it.size = ByteSum(tOp.pre, FilesBelow(tOp.pre, tOp.path))
        /\ tList.items = JournalItems
        /\ tList.total_items = Len(JournalItems)
        /\ tList.total_size = SizesUpTo(JournalItems, Len(JournalItems))
\* an empty directory trashed with retention 3 and listed at once: one entry
\* of size 0, and a directory with a subdirectory listed with the sum of both
\* levels
C16_Witness ==
    /\ ListedAfterMove
    /\ tOp.path = Home \o <<"e">> /\ tOp.retention = 3
    /\ \E i \in NewEntries : tList.items[i].size = 0
    /\ \E j \in 1..Len(tList.items) : tList.items[j].size = 7

IsCacheRead == kOp.op \in {"get_dir_size", "get_scan_results"}
ReadMap == IF kOp.op = "get_dir_size" THEN cache.dir_sizes ELSE cache.scan_results
ReadTtl == IF kOp.op = "get_dir_size" THEN cache.dir_size_ttl ELSE cache.scan_result_ttl
ReadSets == IF kOp.op = "get_dir_size" THEN kSets.dir ELSE kSets.scan

\* C17: a cache read (get_dir_size, get_scan_results) returns a value only if
\* the map holds an entry for the key and the instant of the read is strictly
\* before the entry's expiry, and then it returns the entry's value; counted
\* from the calls themselves, after any sequence of set, get, cleanup and
\* clear_all: a key whose last set since the last clear_all was at instant s
\* with value v and TTL t reads Some(v) at every instant before s + t and None
\* from s + t on, and a key not set since the last clear_all reads None.
C17_ReadBeforeExpiry ==
    IsCacheRead =>
        /\ kOp.ret.some =>
              /\ kOp.key \in DOMAIN ReadMap
              /\ kOp.at < ReadMap[kOp.key].expires_at
              /\ kOp.ret.value = ReadMap[kOp.key].value
        /\ kOp.key \notin DOMAIN ReadSets => ~kOp.ret.some
        /\ kOp.key \in DOMAIN ReadSets =>
              IF kOp.at < ReadSets[kOp.key].at + ReadTtl
              THEN kOp.ret.some /\ kOp.ret.value = ReadSets[kOp.key].value
              ELSE ~kOp.ret.some
\* a read at the very instant the TTL of 2 seconds has elapsed, the entry
\* still being stored: None
C17_Witness ==
    /\ kOp.op = "get_dir_size" /\ ~kOp.ret.some
    /\ cache.dir_size_ttl = 2
    /\ kOp.key \in DOMAIN kSets.dir /\ kOp.at = kSets.dir[kOp.key].at + 2
    /\ kOp.key \in DOMAIN cache.dir_sizes

HasPassedEntry(entry, t) == entry.expires_at <= t
Swept(map, t) == { k \in DOMAIN map : HasPassedEntry(map[k], t) }
SweepOf(before, after, t) ==
    /\ DOMAIN after = DOMAIN before \ Swept(before, t)
    /\ \A k \in DOMAIN after : after[k] = before[k]
\* a step that is a call of the operation
Called(op) ==
    /\ kOp'.op = op /\ instant' = instant
    /\ (kOp.op /= op \/ kOp'.key /= kOp.key \/ kOp'.at /= kOp.at \/ cache' /= cache)
ExpiredRead(map, op) ==
    /\ Called(op) /\ kOp'.key \in DOMAIN map
    /\ HasPassedEntry(map[kOp'.key], instant)

\* C18: entries leave the cache only in the explicit operations. A get never
\* changes a map; a get on a key whose expiry has passed returns None, leaves
\* the entry stored and stats counts it among the entries and the expired
\* ones; cleanup_dir_sizes and cleanup_scan_results remove from their own map
\* all and only the entries whose expiry has passed and leave the other map
\* alone; clear_all leaves both maps empty; no other step removes or changes
\* an entry.
C18_EvictionExplicit ==
    [][ /\ (Called("get_dir_size") \/ Called("get_scan_results") \/ Called("stats")) => cache' = cache
        /\ ExpiredRead(cache.dir_sizes, "get_dir_size") =>
              /\ ~kOp'.ret.some
              /\ kOp'.key \in Swept(cache'.dir_sizes, instant')
              /\ stats(cache', instant').dir_size_expired
                     = Cardinality(Swept(cache'.dir_sizes, instant'))
              /\ stats(cache', instant').dir_size_entries
                     = Cardinality(DOMAIN cache'.dir_sizes)
        /\ ExpiredRead(cache.scan_results, "get_scan_results") =>
              /\ ~kOp'.ret.some
              /\ kOp'.key \in Swept(cache'.scan_results, instant')
              /\ stats(cache', instant').scan_result_expired
                     = Cardinality(Swept(cache'.scan_results, instant'))
              /\ stats(cache', instant').scan_result_entries
                     = Cardinality(DOMAIN cache'.scan_results)
        /\ Called("cleanup_dir_sizes") =>
              /\ SweepOf(cache.dir_sizes, cache'.dir_sizes, instant)
              /\ cache'.scan_results = cache.scan_results
        /\ Called("cleanup_scan_results") =>
              /\ SweepOf(cache.scan_results, cache'.scan_results, instant)
              /\ cache'.dir_sizes = cache.dir_sizes
        /\ Called("clear_all") => DOMAIN cache'.dir_sizes = {} /\ DOMAIN cache'.scan_results = {}
        /\ (\E k \in DOMAIN cache.dir_sizes : k \notin DOMAIN cache'.dir_sizes)
              => Called("cleanup_dir_sizes") \/ Called("clear_all")
        /\ (\E k \in DOMAIN cache.scan_results : k \notin DOMAIN cache'.scan_results)
              => Called("cleanup_scan_results") \/ Called("clear_all")
      ]_vars
\* a sweep that removed one of two keys set and left the other, and counts of
\* stats that show an expired entry still stored
C18_Witness ==
    /\ kOp.op = "cleanup_dir_sizes"
    /\ \E k1 \in DOMAIN kSets.dir, k2 \in DOMAIN kSets.dir :
          k1 \notin DOMAIN cache.dir_sizes /\ k2 \in DOMAIN cache.dir_sizes
    /\ Swept(cache.scan_results, instant) /= {}

PhaseOrder == << "caches", "packages", "logs", "large_files" >>
Included(options, category) ==
    CASE category = "caches" -> options.include_caches
      [] category = "packages" -> options.include_packages
      [] category = "logs" -> options.include_logs
      [] OTHER -> options.include_large_files
EnabledPhases == SelectSeq(PhaseOrder, LAMBDA c : Included(scan.options, c))
\* the pairs the failed attempts up to the n-th must have left, in order
RECURSIVE FailedPairs(_)
FailedPairs(n) ==
    IF n = 0 THEN <<>>
    ELSE IF scan.outcomes[n].ok THEN FailedPairs(n - 1)
    ELSE Append(FailedPairs(n - 1),
                [category |-> scan.attempted[n], error |-> scan.outcomes[n].error])
\* the items the attempts up to the n-th that succeeded found, in order
RECURSIVE FoundItems(_)
FoundItems(n) ==
    IF n = 0 THEN <<>>
    ELSE IF scan.outcomes[n].ok THEN FoundItems(n - 1) \o scan.outcomes[n].items
    ELSE FoundItems(n - 1)
RECURSIVE SizeSum(_)
SizeSum(found) == IF found = <<>> THEN 0 ELSE Head(found).size + SizeSum(Tail(found))
RanAll == scan.attempted = EnabledPhases

\* C19: the phases scan_system_async attempts are the enabled ones among
\* caches, packages, logs, large_files, each once and in that order: at every
\* point of a run the attempts made are an initial part of that list, and a
\* run that reaches its final check has made them all, whichever of them
\* failed. Each failed attempt has left exactly one (category, error) pair
\* and no items, and the result returned holds the pairs of the failed
\* phases and the items of all the others, with their total size.
C19_PhasesIndependent ==
    /\ Len(scan.outcomes) = Len(scan.attempted)
    /\ IsPrefixSeq(scan.attempted, EnabledPhases)
    /\ scan.pc \in {"final", "done"} => RanAll
    /\ scan.st.failed_categories = FailedPairs(Len(scan.attempted))
    /\ scan.st.items = FoundItems(Len(scan.attempted))
    /\ scan.pc = "done" =>
          /\ scan.ret.kind = "Ok"
          /\ scan.ret.failed_categories = FailedPairs(Len(scan.attempted))
          /\ scan.ret.items = FoundItems(Len(scan.attempted))
          /\ scan.ret.total_size = SizeSum(scan.ret.items)
\* a run of all four phases in which caches and logs failed and the other
\* two found their items
C19_Witness ==
    /\ scan.pc = "done" /\ Len(scan.attempted) = 4
    /\ ~scan.outcomes[1].ok /\ ~scan.outcomes[3].ok
    /\ Len(scan.ret.failed_categories) = 2
    /\ Len(scan.ret.items) = 2

\* max_memory_mb of the run: the option, or 500 (scanner/mod.rs 173)
MemoryLimit ==
    IF scan.options.max_memory_mb.some THEN scan.options.max_memory_mb.value ELSE 500
AboveLimit(check) == check.reading.joined /\ check.reading.mb > MemoryLimit
TaskFailed(check) == ~check.reading.joined
SomePhaseFailed == \E i \in 1..Len(scan.outcomes) : ~scan.outcomes[i].ok
NoPartialResult ==
    /\ scan.ret.kind = "MemoryLimitExceeded"
    /\ scan.ret.items = <<>> /\ scan.ret.failed_categories = <<>>
    /\ scan.ret.total_size = 0 /\ scan.ret.total_items = 0

\* C20 as stated: a memory check that finds the memory above max_memory_mb
\* ends the run with MemoryLimitExceeded and no partial result, and a run
\* with phase failures ends in an error only when a memory check found the
\* memory above max_memory_mb.
C20_OnlyAboveLimit ==
    /\ (\E i \in 1..Len(scan.checks) : AboveLimit(scan.checks[i]))
          => scan.pc = "error" /\ NoPartialResult
    /\ (scan.pc = "error" /\ SomePhaseFailed)
          => \E i \in 1..Len(scan.checks) : AboveLimit(scan.checks[i])

\* C20, amended: a memory check fails when its reading is above
\* max_memory_mb or when the task that takes the reading fails. A failed
\* check ends the run at once with MemoryLimitExceeded and no partial result,
\* whichever phases had completed or failed; a run ends in an error only
\* through a failed memory check, and a run whose checks all passed returns
\* a result.
C20_OnlyFailedCheck ==
    /\ \A i \in 1..Len(scan.checks) :
          (AboveLimit(scan.checks[i]) \/ TaskFailed(scan.checks[i]))
              => /\ i = Len(scan.checks)
                 /\ scan.pc = "error"
                 /\ NoPartialResult
                 /\ scan.ret.error = IF TaskFailed(scan.checks[i])
                                     THEN "Memory check task failed"
                                     ELSE "Memory usage exceeds limit"
    /\ scan.pc = "error" =>
          /\ scan.checks /= <<>>
          /\ AboveLimit(Last(scan.checks)) \/ TaskFailed(Last(scan.checks))
    /\ scan.pc = "done" => scan.ret.kind = "Ok"
    /\ scan.pc \notin {"done", "error"} => scan.ret = NoReturn
\* a run ended by a reading above the limit after two phases, one of which
\* failed and one of which had found items
C20_Witness ==
    /\ scan.pc = "error" /\ AboveLimit(Last(scan.checks))
    /\ Len(scan.attempted) >= 2 /\ SomePhaseFailed /\ scan.st.items /= <<>>

ScanEvents == scan.st.events
\* the phases that had completed when the i-th event was emitted: the
\* events before it, and itself, that close a phase
RECURSIVE PhasesDone(_)
PhasesDone(i) ==
    IF i = 0 THEN 0
    ELSE PhasesDone(i - 1)
         + (IF ScanEvents[i].phase_progress = 100 /\ ScanEvents[i].category /= "complete"
            THEN 1 ELSE 0)
RolledUp(i) ==
    (PhasesDone(i) * 100 + ScanEvents[i].phase_progress) \div scan.st.total_phases

\* C21: every progress event of a scan carries the overall percentage
\* (phases_done*100 + phase_pct)/total_phases, phases_done being the number
\* of phases completed when it is emitted and phase_pct the progress of the
\* current phase, and the value lies within 0..100.
C21_OverallPercent ==
    \A i \in 1..Len(ScanEvents) :
        /\ ScanEvents[i].progress \in 0..100
        /\ scan.st.total_phases > 0 => ScanEvents[i].progress = RolledUp(i)

\* C27: within one run the overall progress of successive events never
\* decreases.
C27_ProgressMonotone ==
    \A i \in 1..Len(ScanEvents), j \in 1..Len(ScanEvents) :
        i < j => ScanEvents[i].progress <= ScanEvents[j].progress

\* the seconds after the call at which the i-th item of the batch has its turn
RECURSIVE BeginOf(_)
BeginOf(i) == IF i <= 1 THEN 0 ELSE BeginOf(i - 1) + cOp.secs[i - 1]
\* the items whose turn comes before the timeout has passed
InTime == { i \in 1..Len(cOp.secs) : BeginOf(i) < cleanup_timeout }
Validations == { j \in 1..Len(cOp.log) : cOp.log[j].ev = "validate" }

Pairs ==
    IF Len(cOp.item_ids) < Len(cOp.item_paths) THEN Len(cOp.item_ids)
    ELSE Len(cOp.item_paths)
\* the log entries of the last command that are validations, in order
ValidatedPaths ==
    LET v == SelectSeq(cOp.log, LAMBDA ev : ev.ev = "validate")
    IN  [k \in 1..Len(v) |-> v[k].path]

\* C30: clean_items pairs item_ids with item_paths by position and handles
\* only the first min(len(item_ids), len(item_paths)) paths, in order;
\* cleaned + failed of the CleanResult is that number; a surplus path is not
\* validated, not cleaned and not counted, and nothing of the file system
\* changes but what the handled paths stand for.
C30_SurplusIgnored ==
    cOp.op = "clean_items" =>
        /\ cOp.cleaned + cOp.failed = Pairs
        /\ ValidatedPaths = SubSeq(cOp.item_paths, 1, Pairs)
        /\ \A j \in 1..Len(cOp.log) :
              \E k \in 1..Pairs : cOp.log[j].path = cOp.item_paths[k]
        /\ Touched \subseteq UNION { Covered(cOp.item_paths[k]) : k \in 1..Pairs }
\* two paths with one id: the first is cleaned, the second left where it was
C30_Witness ==
    /\ cOp.op = "clean_items" /\ Len(cOp.item_ids) = 1
    /\ cOp.item_paths = << ToStr(Home \o <<"a">>), ToStr(Home \o <<"d">>) >>
    /\ cOp.cleaned = 1 /\ cOp.failed = 0
    /\ Home \o <<"a">> \notin DOMAIN fs
    /\ Home \o <<"d">> \in DOMAIN fs /\ fs[Home \o <<"d", "f">>] = cOp.pre[Home \o <<"d", "f">>]

\* the journal file is missing or is no journal
JournalLost(f) ==
    LET p == canonicalize(f, get_metadata_path(env)) IN
    p = NoPath \/ f[p].kind /= "file" \/ ~f[p].journal.ok
\* the last call found the journal so
PreJournalLost == JournalLost(tOp.pre)
\* the identifiers that were in the journal and whose objects the last call
\* found under the trash root
LostEntries == { id \in departed : Occupied(tOp.pre, Append(TrashDir, id)) }
\* the object of a lost entry is under the trash root as it was, or it was the
\* source of this very move and lies under the trash root as the new item
KeptUnderTrash(id) ==
    \/ SameObject(tOp.pre, fs, Append(TrashDir, id))
    \/ /\ tOp.op = "move_to_trash"
       /\ entry_key(tOp.pre, tOp.path) = Append(TrashDir, id)
       /\ Occupied(fs, Append(TrashDir, tOp.id))

\* C28: when move_to_trash, cleanup_expired or empty_trash finds the journal
\* missing or not parseable and succeeds, it leaves a readable journal that
\* holds none of the entries journaled before (only the new item after a move,
\* nothing after the other two), and the objects of those entries are still
\* under the trash root.
C28_JournalLostSilently ==
    (/\ tOp.op \in {"move_to_trash", "cleanup_expired", "empty_trash"}
     /\ tOp.res = "Ok"
     /\ PreJournalLost) =>
        /\ ~JournalLost(fs)
        /\ JournalIds = IF tOp.op = "move_to_trash" THEN {tOp.id} ELSE {}
        /\ \A id \in LostEntries : id \notin JournalIds /\ KeptUnderTrash(id)
\* an entry was journaled, the journal was damaged, and empty_trash then wrote
\* an empty journal and left the entry's object in the trash root
C28_Witness ==
    /\ tOp.op = "empty_trash" /\ tOp.res = "Ok" /\ PreJournalLost
    /\ LostEntries /= {}
    /\ canonicalize(tOp.pre, get_metadata_path(env)) /= NoPath
    /\ JournalItems = <<>> /\ ~JournalLost(fs)

\* the run was configured with max_files = 0 and returned results
ZeroFilesRun ==
    scan.ret.kind = "Ok" /\ scan.options.max_files.some /\ scan.options.max_files.value = 0

\* C22: a scan configured with max_files = 0 returns an empty result: no
\* items, total_size 0, total_items 0 and no failed categories, whatever
\* phases are enabled.
C22_ZeroFilesEmpty ==
    ZeroFilesRun =>
        /\ scan.ret.items = <<>>
        /\ scan.ret.total_size = 0
        /\ scan.ret.total_items = 0
        /\ scan.ret.failed_categories = <<>>

(* ------------------------------------------------------------------ *)
(* The contracts of the storage recovery suite                         *)
(* ------------------------------------------------------------------ *)

\* the groups the last scan_duplicate_files returned
Groups == dup.duplicates.list
\* the names of the members of a group, and the walked file of a name
MemberNames(g) == { g.files[k].name : k \in 1..Len(g.files) }
FileNamed(name) == CHOOSE f \in { dup.walk[i] : i \in 1..Len(dup.walk) } : f.name = name
\* the offset lies in a window the fingerprint samples: the first 64 KiB, the
\* 64 KiB from the middle on when the size is above 128 KiB, the last 64 KiB
\* when the size is above 64 KiB
Sampled(p, size) ==
    \/ p >= 0 /\ p < 65536 /\ p < size
    \/ size > 131072 /\ p >= size \div 2 /\ p < (size \div 2) + 65536
    \/ size > 65536 /\ p >= size - 65536 /\ p < size
\* two files of one size with the same bytes at every sampled offset
SampledEqual(f, g) ==
    /\ f.size = g.size
    /\ { p \in f.ones : Sampled(p, f.size) } = { p \in g.ones : Sampled(p, g.size) }

\* C24: every DuplicateGroup returned by scan_duplicate_files has at least two
\* members; all members have the same file size, which is above 1 KiB, and
\* agree in the sampled windows; group_size is the member count, total_size
\* the size times group_size, and no file is in two groups or twice in one.
C24_GroupInvariant ==
    dup.op = "scan_duplicate_files" =>
        /\ \A i \in 1..Len(Groups) :
              LET g == Groups[i] IN
              /\ Len(g.files) >= 2
              /\ g.group_size = Len(g.files)
              /\ Cardinality(MemberNames(g)) = Len(g.files)
              /\ \A k \in 1..Len(g.files) :
                    /\ g.files[k].size > 1024
                    /\ g.files[k].size = FileNamed(g.files[k].name).size
                    /\ g.total_size = g.files[k].size * g.group_size
                    /\ FileNamed(g.files[k].name).is_file
                    /\ SampledEqual(FileNamed(g.files[k].name), FileNamed(g.files[1].name))
        /\ \A i \in 1..Len(Groups), j \in 1..Len(Groups) :
              i /= j => MemberNames(Groups[i]) \cap MemberNames(Groups[j]) = {}
\* three files of 64 KiB + 1 with the same bytes make one group of three
C24_Witness ==
    /\ dup.op = "scan_duplicate_files" /\ Len(Groups) = 1
    /\ Groups[1].group_size = 3 /\ Groups[1].total_size = 3 * 65537
    /\ MemberNames(Groups[1]) = {"a", "b", "c"}

\* the files of the last walk that the scan sizes and fingerprints
Fingerprinted ==
    { f \in { dup.walk[i] : i \in 1..Len(dup.walk) } : f.is_file /\ f.stat_ok /\ f.readable }
InOneGroup(f, g) == \E i \in 1..Len(Groups) : {f.name, g.name} \subseteq MemberNames(Groups[i])

\* C25: two scanned files of equal size above 1 KiB are in the same
\* DuplicateGroup exactly when their bytes are equal in the sampled windows:
\* the first 64 KiB, the middle chunk when the size is above two chunks, the
\* last chunk when it is above one.
C25_SampledWindowsDecide ==
    (dup.op = "scan_duplicate_files" /\ dup.duplicates.ok) =>
        \A f \in Fingerprinted, g \in Fingerprinted :
            (f.name /= g.name /\ f.size = g.size /\ f.size > 1024) =>
                (InOneGroup(f, g) <=> SampledEqual(f, g))
\* two files of 2 MiB that differ ten bytes before the end are in no group
\* together, while the third, equal to the first, is grouped with it
C25_Witness ==
    /\ dup.op = "scan_duplicate_files" /\ dup.duplicates.ok
    /\ \E f \in Fingerprinted, g \in Fingerprinted, h \in Fingerprinted :
          /\ f.name = "a" /\ g.name = "b" /\ h.name = "c"
          /\ f.size = 2097152 /\ g.size = 2097152 /\ h.size = 2097152
          /\ f.ones = {} /\ g.ones = {2097152 - 10}
          /\ ~InOneGroup(f, g) /\ InOneGroup(f, h)

\* the sub-scan, first, second or third, has a home directory to walk
SubScanSucceeds(i) == dup.homes[i] = Home

\* C26: scan_storage_recovery returns a result even when some of its
\* sub-scans fail, and the result holds the output of every sub-scan that
\* succeeded.
C26_BestEffort ==
    (dup.op = "scan_storage_recovery" /\ dup.task = "done") =>
        /\ dup.ret.kind = "Ok"
        /\ SubScanSucceeds(1) =>
              dup.ret.duplicates = scan_duplicate_files(Home, dup.walk).list
        /\ SubScanSucceeds(2) =>
              dup.ret.large_files
                  = scan_large_files_storage_recovery(Home, dup.walk, 1024 * 1024 * 1024).list
        /\ SubScanSucceeds(3) =>
              dup.ret.old_downloads = scan_old_downloads(Home, dup.walk, 90).list

\* C29: after any sequence of start_diskpulse_monitoring and
\* stop_diskpulse_monitoring calls, failed ones included, at most one sampler
\* task is alive, and one is alive exactly when is_running is true.
C29_OneSamplerIffRunning ==
    /\ Cardinality(mon.samplers) <= 1
    /\ (mon.samplers /= {}) <=> mon.state.is_running
====
